---- MODULE Spec2Model ----
(***************************************************************************)
(* State-machine model of the storage engines of LSM-vs-BTREE:             *)
(*   - the in-memory B+ tree of src/btree/btree.h,                         *)
(*   - the LSM tree of src/old_implementation/lsm/lsm_tree.h with the      *)
(*     SSTables of src/old_implementation/lsm/SSTables.h,                  *)
(*   - the Bloom filter of RegisterBlockedBloomFilter.h, alone and as the  *)
(*     filter of one SSTable, and                                          *)
(*   - the SkipListMemtable of src/old_implementation/LSM/memtable.        *)
(* Each component has its own specifications; the variables of the         *)
(* components a specification does not exercise keep their constructed     *)
(* value.                                                                  *)
(***************************************************************************)
EXTENDS Integers, Sequences, FiniteSets, TLC

VARIABLES
    nodes_,      \* BPlusTree::nodes_ : node i of the code is nodes_[i + 1]
    rootIndex_,  \* BPlusTree::rootIndex_
    lastPut,     \* history: key -> value of the last put that returned (0: never put)
    btOut,       \* result of the last get / rangeQuery of the sequential client
    thr,         \* concurrent clients of the B+ tree: one record per thread
    locked,      \* per thread, the node_mutex locks it holds, in the order
                 \* it took them: one per active call of searchKey /
                 \* insertInternal, and those of the nodes a split created
    tree_mutex,  \* BPlusTree::tree_mutex : the thread that holds it, or 0
    active_memtable_,     \* LSMTree::active_memtable_
    immutable_memtables_, \* LSMTree::immutable_memtables_ (front = oldest)
    levels_,              \* LSMTree::levels_ : level i of the code is levels_[i + 1]
    next_sstable_id_,     \* LSMTree::next_sstable_id_
    cli,         \* writer threads of the LSM tree: position and locals of put / del
    rdr,         \* reader threads of the LSM tree: position and locals of get
    flusher,     \* flush_worker_loop: position and memtable_to_flush
    compactor,   \* compaction_worker_loop: position and the inputs it picked
    hist,        \* history: per key, the last value written, the number of
                 \* writes (up to 2) and whether the key was ever deleted
    authors,     \* history: the writer threads that have written
    nwrites,     \* history: number of put / del calls made so far
    shutdown_requested_,  \* LSMTree::shutdown_requested_
    closer,      \* ~LSMTree: position, and what its final flush found
    stdhash,     \* std::hash<uint64_t> of the build, once it is known
    blocks_,     \* RegisterBlockedBloomFilter::blocks_ : block i is blocks_[i + 1]
    inserted,    \* history: the keys passed to Insert
    bloomOut,    \* the last Query: its key and its result
    heap,        \* the SkipListNodes allocated by a SkipListMemtable: a
                 \* pointer is an index, head_ and tail_ come first
    size_,          \* SkipListMemtable::size_
    memory_usage_,  \* SkipListMemtable::memory_usage_
    slOut,       \* the last call on the SkipListMemtable and how it ended
    slHist,      \* history: per key, whether it was put, the value of the
                 \* last put, and whether it was deleted since
    slThr,       \* the threads that call SkipListMemtable::put at the same
                 \* time: where each one is in put, its locals, and the
                 \* entries its puts returned true for
    sst_ptr,     \* one SSTable with its Bloom filter: the shared_ptr that
                 \* create_from_memtable returned (<<>>: none, or nullptr)
    sstOut,      \* the last find_key on it: its key and its result
    rw_mutex_,   \* CustomSkipListMemtable::rw_mutex_, the std::shared_mutex:
                 \* its exclusive owner (0: none) and its shared owners
    cmThr        \* the threads that call the CustomSkipListMemtable: where
                 \* each one is in its call, the arguments, and how its
                 \* last call ended

btVars == <<nodes_, rootIndex_, lastPut, btOut, thr>>
lsmVars == <<active_memtable_, immutable_memtables_, levels_, next_sstable_id_,
             cli, rdr, flusher, compactor, hist, authors, nwrites,
             shutdown_requested_, closer>>
bloomVars == <<stdhash, blocks_, inserted, bloomOut>>
skipVars == <<heap, size_, memory_usage_, slOut, slHist>>
skipThreadVars == <<slThr>>
btLockVars == <<locked, tree_mutex>>
sstVars == <<sst_ptr, sstOut>>
customVars == <<rw_mutex_, cmThr>>
nonBPlusTreeVars == <<lsmVars, bloomVars, skipVars, skipThreadVars, sstVars,
                      customVars>>
nonBtVars == <<btLockVars, nonBPlusTreeVars>>
nonLsmVars == <<btVars, btLockVars, bloomVars, skipVars, skipThreadVars, sstVars,
                customVars>>
nonBloomVars == <<btVars, btLockVars, lsmVars, skipVars, skipThreadVars, sstVars,
                customVars>>
nonSkipVars == <<btVars, btLockVars, lsmVars, bloomVars, skipThreadVars, sstVars,
                customVars>>
nonSkipListVars == <<btVars, btLockVars, lsmVars, bloomVars, sstVars,
                     customVars>>
nonSSTableVars == <<btVars, btLockVars, lsmVars, blocks_, inserted, bloomOut,
                    skipVars, skipThreadVars, customVars>>
nonCustomVars == <<btVars, btLockVars, lsmVars, bloomVars, skipVars,
                   skipThreadVars, sstVars>>
vars == <<btVars, btLockVars, lsmVars, bloomVars, skipVars, skipThreadVars, sstVars,
          customVars>>

(***************************************************************************)
(* Bounds.  LeafCap and InternalCap scale the node capacities 30 and 120   *)
(* of the code down so that leaf, internal and root splits are reachable.  *)
(***************************************************************************)
LeafCap == 2
InternalCap == 2
MaxKey == 5
MaxVal == 2
MaxResults == 2
NumThreads == 2
\* the keys of a client that only loads the tree: 1..MaxLoadKey
MaxLoadKey == 10
\* LSM: the constructor's arguments and the size of the workload
memtable_max_size_entries_ == 2
max_level0_sstables_ == 1
max_levels_ == 3
level_entry_multiplier_ == 1
sstable_target_entry_count_ == 2
NumLKeys == 3
NumGetKeys == 2
NumClients == 2
NumReaders == 1
MaxWrites == 4
\* Bloom filter: the constructor's arguments; WordBits scales the 64 bits
\* of a block and HashBits the 64 bits of a key and of a hash value
num_blocks_ == 2
num_hashes_ == 3
WordBits == 4
HashBits == 2
\* SkipListMemtable: MaxLevel scales SkipListNode::MAX_LEVEL = 32 and
\* NodeBytes scales sizeof(SkipListNode); max_size_ is the constructor's
\* argument; a key is a sequence of characters 1..NumChars, a value one
\* of characters 1..NumValChars
MaxLevel == 2
NodeBytes == 2
max_size_ == 8
NumChars == 2
NumValChars == 1
MaxKeyLen == 1
MaxValLen == 1
MaxBatch == 1
MaxCalls == 2
MaxBulkWrites == 6

MAX_KEYS_LEAF == LeafCap
MAX_KEYS_INTERNAL == InternalCap
\* the two capacities as btree.h defines them
MAX_KEYS_LEAF_code == 30
MAX_KEYS_INTERNAL_code == 120
SIZE_MAX == -1
EmptyValue == 0

Keys == 1..MaxKey
LoadKeys == 1..MaxLoadKey
Values == 1..MaxVal
Threads == 1..NumThreads
LKeys == 1..NumLKeys
GetKeys == 1..NumGetKeys
Clients == 1..NumClients
Readers == 1..NumReaders

(***************************************************************************)
(* B+ tree: nodes.  The code keeps keys, values and childIndices in        *)
(* vectors of fixed capacity of which it only ever reads the slots below   *)
(* numKeys (childIndices: up to numKeys); a node here holds these live     *)
(* slots: keys and values are functions on 0..numKeys-1, childIndices on   *)
(* 0..numKeys.                                                             *)
(***************************************************************************)
Arr(n, x) == [i \in 0..(n - 1) |-> x]

LeafNode ==
    [type |-> "Leaf", numKeys |-> 0,
     keys |-> Arr(0, 0), values |-> Arr(0, EmptyValue),
     childIndices |-> Arr(0, SIZE_MAX),
     nextLeaf |-> SIZE_MAX]

InternalNode ==
    [type |-> "Internal", numKeys |-> 0,
     keys |-> Arr(0, 0), values |-> Arr(0, EmptyValue),
     childIndices |-> Arr(1, SIZE_MAX),
     nextLeaf |-> SIZE_MAX]

\* nodes_[off] of the code
NodeAt(ns, off) == ns[off + 1]

SetNode(ns, off, n) == [ns EXCEPT ![off + 1] = n]

allocateNode(ns) == [nodes |-> Append(ns, InternalNode), off |-> Len(ns)]

allocateLeaf(ns) == [nodes |-> Append(ns, LeafNode), off |-> Len(ns)]

NoSplit == [splitted |-> FALSE, newChildOffset |-> 0, promotedKey |-> 0]

\* the index the loop "while (i < numKeys && key >= keys[i]) i++" stops at
ChildPos(node, key) ==
    CHOOSE i \in 0..node.numKeys :
        /\ (i = node.numKeys \/ key < node.keys[i])
        /\ \A j \in 0..(i - 1) : key >= node.keys[j]

(***************************************************************************)
(* B+ tree: search                                                         *)
(***************************************************************************)
NotFound == [found |-> FALSE, value |-> EmptyValue]

\* searchKey descending with "key > keys[i]" instead of "key >= keys[i]":
\* a key equal to a separator is looked for in the left child
RECURSIVE searchKeyStrict(_, _, _)
searchKeyStrict(ns, nodeOffset, key) ==
    IF nodeOffset = SIZE_MAX THEN NotFound
    ELSE LET node == NodeAt(ns, nodeOffset) IN
         IF node.type = "Leaf"
         THEN IF \E i \in 0..(node.numKeys - 1) : node.keys[i] = key
              THEN LET i == CHOOSE i \in 0..(node.numKeys - 1) : node.keys[i] = key
                   IN [found |-> TRUE, value |-> node.values[i]]
              ELSE NotFound
         ELSE LET p == CHOOSE i \in 0..node.numKeys :
                          /\ (i = node.numKeys \/ key <= node.keys[i])
                          /\ \A j \in 0..(i - 1) : key > node.keys[j]
              IN searchKeyStrict(ns, node.childIndices[p], key)

RECURSIVE searchKey(_, _, _)
searchKey(ns, nodeOffset, key) ==
    IF nodeOffset = SIZE_MAX THEN NotFound
    ELSE LET node == NodeAt(ns, nodeOffset) IN
         IF node.type = "Leaf"
         THEN IF \E i \in 0..(node.numKeys - 1) : node.keys[i] = key
              THEN LET i == CHOOSE i \in 0..(node.numKeys - 1) :
                                /\ node.keys[i] = key
                                /\ \A j \in 0..(i - 1) : node.keys[j] # key
                   IN [found |-> TRUE, value |-> node.values[i]]
              ELSE NotFound
         ELSE searchKey(ns, node.childIndices[ChildPos(node, key)], key)

get(ns, root, key) ==
    IF root = SIZE_MAX THEN NotFound ELSE searchKey(ns, root, key)

RECURSIVE findLeafForKey(_, _, _)
findLeafForKey(ns, nodeOffset, key) ==
    IF nodeOffset = SIZE_MAX THEN SIZE_MAX
    ELSE LET node == NodeAt(ns, nodeOffset) IN
         IF node.type = "Leaf" THEN nodeOffset
         ELSE findLeafForKey(ns, node.childIndices[ChildPos(node, key)], key)

(***************************************************************************)
(* B+ tree: range query                                                    *)
(***************************************************************************)
\* the inner loop of rangeQuery stopping at "k >= high" instead of
\* "k > high": the pair of high itself is left out
RECURSIVE ScanLeafBelowHigh(_, _, _, _, _, _)
ScanLeafBelowHigh(leaf, i, out, low, high, max_results) ==
    IF ~(i < leaf.numKeys /\ Len(out) < max_results)
    THEN [out |-> out, done |-> FALSE]
    ELSE LET k == leaf.keys[i] IN
         IF k < low THEN ScanLeafBelowHigh(leaf, i + 1, out, low, high, max_results)
         ELSE IF k >= high THEN [out |-> out, done |-> TRUE]
         ELSE ScanLeafBelowHigh(leaf, i + 1, Append(out, <<k, leaf.values[i]>>),
                                low, high, max_results)

\* the inner for loop of rangeQuery over one leaf, from record i on
RECURSIVE ScanLeaf(_, _, _, _, _, _)
ScanLeaf(leaf, i, out, low, high, max_results) ==
    IF ~(i < leaf.numKeys /\ Len(out) < max_results)
    THEN [out |-> out, done |-> FALSE]
    ELSE LET k == leaf.keys[i] IN
         IF k < low THEN ScanLeaf(leaf, i + 1, out, low, high, max_results)
         ELSE IF k > high THEN [out |-> out, done |-> TRUE]
         ELSE ScanLeaf(leaf, i + 1, Append(out, <<k, leaf.values[i]>>),
                       low, high, max_results)

\* the while loop of rangeQuery along the nextLeaf chain
RECURSIVE WalkLeaves(_, _, _, _, _, _)
WalkLeaves(ns, leafOff, out, low, high, max_results) ==
    IF ~(leafOff # SIZE_MAX /\ Len(out) < max_results) THEN out
    ELSE LET leaf == NodeAt(ns, leafOff)
             r == ScanLeaf(leaf, 0, out, low, high, max_results)
         IN IF r.done THEN r.out
            ELSE WalkLeaves(ns, leaf.nextLeaf, r.out, low, high, max_results)

rangeQuery(ns, root, low, high, max_results) ==
    IF root = SIZE_MAX \/ low > high THEN <<>>
    ELSE WalkLeaves(ns, findLeafForKey(ns, root, low), <<>>, low, high, max_results)

(***************************************************************************)
(* B+ tree: insertion.  A tree value t is [nodes, root].                   *)
(***************************************************************************)
\* insertLeaf without its shifting loop: the new record goes to the end
LeafInsertAtEnd(leaf, key) == leaf.numKeys

\* insertLeaf, numKeys < MAX_KEYS_LEAF: the slot the shifting loop
\* "while (pos > 0 && keys[pos - 1] > key) pos--" stops at
LeafInsertPos(leaf, key) ==
    CHOOSE p \in 0..leaf.numKeys :
        /\ (p = 0 \/ ~(leaf.keys[p - 1] > key))
        /\ \A j \in (p + 1)..leaf.numKeys : leaf.keys[j - 1] > key

\* splitLeaf: the first i with key < tmpKeys[i], else tmpKeys.size()
SplitLeafPos(leaf, key) ==
    IF \E i \in 0..(leaf.numKeys - 1) : key < leaf.keys[i]
    THEN CHOOSE i \in 0..(leaf.numKeys - 1) :
            /\ key < leaf.keys[i]
            /\ \A j \in 0..(i - 1) : ~(key < leaf.keys[j])
    ELSE leaf.numKeys

\* the n live slots of arr with x inserted at slot pos
InsertAt(arr, n, pos, x) ==
    [i \in 0..n |-> IF i < pos THEN arr[i] ELSE IF i = pos THEN x ELSE arr[i - 1]]

\* slots from..from+n-1 of arr, as slots 0..n-1
Slice(arr, from, n) == [i \in 0..(n - 1) |-> arr[from + i]]

\* splitLeaf with "split = (tmpKeys.size() + 1) / 2": the larger half stays
splitLeafUpperHalf(t, leafOffset, key, val) ==
    LET leaf == NodeAt(t.nodes, leafOffset)
        pos == SplitLeafPos(leaf, key)
        tmpKeys == InsertAt(leaf.keys, leaf.numKeys, pos, key)
        tmpValues == InsertAt(leaf.values, leaf.numKeys, pos, val)
        size == leaf.numKeys + 1
        a == allocateLeaf(t.nodes)
        newLeafOffset == a.off
        split == (size + 1) \div 2
        leaf2 == [leaf EXCEPT !.numKeys = split,
                              !.keys = Slice(tmpKeys, 0, split),
                              !.values = Slice(tmpValues, 0, split),
                              !.nextLeaf = newLeafOffset]
        newLeaf == [LeafNode EXCEPT !.numKeys = size - split,
                                    !.keys = Slice(tmpKeys, split, size - split),
                                    !.values = Slice(tmpValues, split, size - split),
                                    !.nextLeaf = leaf.nextLeaf]
    IN [nodes |-> SetNode(SetNode(a.nodes, leafOffset, leaf2), newLeafOffset, newLeaf),
        root |-> t.root,
        res |-> [splitted |-> TRUE, newChildOffset |-> newLeafOffset,
                 promotedKey |-> newLeaf.keys[0]]]

splitLeaf(t, leafOffset, key, val) ==
    LET leaf == NodeAt(t.nodes, leafOffset)
        pos == SplitLeafPos(leaf, key)
        tmpKeys == InsertAt(leaf.keys, leaf.numKeys, pos, key)
        tmpValues == InsertAt(leaf.values, leaf.numKeys, pos, val)
        size == leaf.numKeys + 1
        a == allocateLeaf(t.nodes)
        newLeafOffset == a.off
        split == size \div 2
        leaf2 == [leaf EXCEPT !.numKeys = split,
                              !.keys = Slice(tmpKeys, 0, split),
                              !.values = Slice(tmpValues, 0, split),
                              !.nextLeaf = newLeafOffset]
        newLeaf == [LeafNode EXCEPT !.numKeys = size - split,
                                    !.keys = Slice(tmpKeys, split, size - split),
                                    !.values = Slice(tmpValues, split, size - split),
                                    !.nextLeaf = leaf.nextLeaf]
    IN [nodes |-> SetNode(SetNode(a.nodes, leafOffset, leaf2), newLeafOffset, newLeaf),
        root |-> t.root,
        res |-> [splitted |-> TRUE, newChildOffset |-> newLeafOffset,
                 promotedKey |-> newLeaf.keys[0]]]

\* insertLeaf testing "numKeys <= MAX_KEYS_LEAF": a full leaf takes one
\* more record instead of splitting
insertLeafOverfull(t, leafOffset, key, val) ==
    LET leaf == NodeAt(t.nodes, leafOffset) IN
    IF \E i \in 0..(leaf.numKeys - 1) : leaf.keys[i] = key
    THEN LET i == CHOOSE i \in 0..(leaf.numKeys - 1) : leaf.keys[i] = key
         IN [nodes |-> SetNode(t.nodes, leafOffset,
                               [leaf EXCEPT !.values[i] = val]),
             root |-> t.root, res |-> NoSplit]
    ELSE IF leaf.numKeys <= MAX_KEYS_LEAF
    THEN LET pos == LeafInsertPos(leaf, key)
         IN [nodes |-> SetNode(t.nodes, leafOffset,
                   [leaf EXCEPT !.keys = InsertAt(leaf.keys, leaf.numKeys, pos, key),
                                !.values = InsertAt(leaf.values, leaf.numKeys, pos, val),
                                !.numKeys = leaf.numKeys + 1]),
             root |-> t.root, res |-> NoSplit]
    ELSE splitLeaf(t, leafOffset, key, val)

insertLeaf(t, leafOffset, key, val) ==
    LET leaf == NodeAt(t.nodes, leafOffset) IN
    IF \E i \in 0..(leaf.numKeys - 1) : leaf.keys[i] = key
    THEN LET i == CHOOSE i \in 0..(leaf.numKeys - 1) :
                      /\ leaf.keys[i] = key
                      /\ \A j \in 0..(i - 1) : leaf.keys[j] # key
         IN [nodes |-> SetNode(t.nodes, leafOffset,
                               [leaf EXCEPT !.values[i] = val]),
             root |-> t.root, res |-> NoSplit]
    ELSE IF leaf.numKeys < MAX_KEYS_LEAF
    THEN LET pos == LeafInsertPos(leaf, key)
         IN [nodes |-> SetNode(t.nodes, leafOffset,
                   [leaf EXCEPT !.keys = InsertAt(leaf.keys, leaf.numKeys, pos, key),
                                !.values = InsertAt(leaf.values, leaf.numKeys, pos, val),
                                !.numKeys = leaf.numKeys + 1]),
             root |-> t.root, res |-> NoSplit]
    ELSE splitLeaf(t, leafOffset, key, val)

\* splitInternal with "midIndex = totalKeys - 1": the last key goes up
splitInternalLastKey(t, nodeOffset, childIndex, cRes) ==
    LET node == NodeAt(t.nodes, nodeOffset)
        tmpKeys == InsertAt(node.keys, node.numKeys, childIndex, cRes.promotedKey)
        tmpChildIndices == InsertAt(node.childIndices, node.numKeys + 1,
                                    childIndex + 1, cRes.newChildOffset)
        totalKeys == node.numKeys + 1
        midIndex == totalKeys - 1
        promotedKey == tmpKeys[midIndex]
        leftCount == midIndex
        rightCount == totalKeys - (leftCount + 1)
        node2 == [node EXCEPT !.numKeys = leftCount,
                              !.keys = Slice(tmpKeys, 0, leftCount),
                              !.childIndices = Slice(tmpChildIndices, 0, leftCount + 1)]
        a == allocateNode(t.nodes)
        newOffset == a.off
        newNode == [InternalNode EXCEPT
                      !.numKeys = rightCount,
                      !.keys = Slice(tmpKeys, midIndex + 1, rightCount),
                      !.childIndices = Slice(tmpChildIndices, midIndex + 1, rightCount + 1)]
    IN [nodes |-> SetNode(SetNode(a.nodes, nodeOffset, node2), newOffset, newNode),
        root |-> t.root,
        res |-> [splitted |-> TRUE, newChildOffset |-> newOffset,
                 promotedKey |-> promotedKey]]

\* splitInternal that copies the middle key into the new node as well
splitInternalCopyUp(t, nodeOffset, childIndex, cRes) ==
    LET node == NodeAt(t.nodes, nodeOffset)
        tmpKeys == InsertAt(node.keys, node.numKeys, childIndex, cRes.promotedKey)
        tmpChildIndices == InsertAt(node.childIndices, node.numKeys + 1,
                                    childIndex + 1, cRes.newChildOffset)
        totalKeys == node.numKeys + 1
        midIndex == totalKeys \div 2
        promotedKey == tmpKeys[midIndex]
        leftCount == midIndex
        rightCount == totalKeys - leftCount
        node2 == [node EXCEPT !.numKeys = leftCount,
                              !.keys = Slice(tmpKeys, 0, leftCount),
                              !.childIndices = Slice(tmpChildIndices, 0, leftCount + 1)]
        a == allocateNode(t.nodes)
        newOffset == a.off
        newNode == [InternalNode EXCEPT
                      !.numKeys = rightCount,
                      !.keys = Slice(tmpKeys, midIndex, rightCount),
                      !.childIndices = Slice(tmpChildIndices, midIndex, rightCount + 1)]
    IN [nodes |-> SetNode(SetNode(a.nodes, nodeOffset, node2), newOffset, newNode),
        root |-> t.root,
        res |-> [splitted |-> TRUE, newChildOffset |-> newOffset,
                 promotedKey |-> promotedKey]]

\* t is the tree after the child's insert returned cRes
splitInternal(t, nodeOffset, childIndex, cRes) ==
    LET node == NodeAt(t.nodes, nodeOffset)
        tmpKeys == InsertAt(node.keys, node.numKeys, childIndex, cRes.promotedKey)
        tmpChildIndices == InsertAt(node.childIndices, node.numKeys + 1,
                                    childIndex + 1, cRes.newChildOffset)
        totalKeys == node.numKeys + 1
        midIndex == totalKeys \div 2
        promotedKey == tmpKeys[midIndex]
        leftCount == midIndex
        rightCount == totalKeys - (leftCount + 1)
        node2 == [node EXCEPT !.numKeys = leftCount,
                              !.keys = Slice(tmpKeys, 0, leftCount),
                              !.childIndices = Slice(tmpChildIndices, 0, leftCount + 1)]
        a == allocateNode(t.nodes)
        newOffset == a.off
        newNode == [InternalNode EXCEPT
                      !.numKeys = rightCount,
                      !.keys = Slice(tmpKeys, midIndex + 1, rightCount),
                      !.childIndices = Slice(tmpChildIndices, midIndex + 1, rightCount + 1)]
    IN [nodes |-> SetNode(SetNode(a.nodes, nodeOffset, node2), newOffset, newNode),
        root |-> t.root,
        res |-> [splitted |-> TRUE, newChildOffset |-> newOffset,
                 promotedKey |-> promotedKey]]

\* the part of insertIntoInternal after the recursive call on child i returned c
absorbChild(c, nodeOffset, i) ==
    LET internal == NodeAt(c.nodes, nodeOffset) IN
    IF ~c.res.splitted
    THEN [nodes |-> c.nodes, root |-> c.root, res |-> NoSplit]
    ELSE IF internal.numKeys < MAX_KEYS_INTERNAL
    THEN LET n == internal.numKeys
         IN [nodes |-> SetNode(c.nodes, nodeOffset,
                   [internal EXCEPT
                      !.keys = InsertAt(internal.keys, n, i, c.res.promotedKey),
                      !.childIndices = InsertAt(internal.childIndices, n + 1, i + 1,
                                                c.res.newChildOffset),
                      !.numKeys = n + 1]),
             root |-> c.root, res |-> NoSplit]
    ELSE splitInternal(c, nodeOffset, i, c.res)

\* insertInternal on an absent node: a fresh one-record leaf becomes the root
insertIntoEmpty(t, key, val) ==
    LET a == allocateLeaf(t.nodes)
        leaf == [LeafNode EXCEPT !.keys = Arr(1, key), !.values = Arr(1, val),
                                 !.numKeys = 1]
    IN [nodes |-> SetNode(a.nodes, a.off, leaf), root |-> a.off, res |-> NoSplit]

RECURSIVE insertInternal(_, _, _, _)
insertInternal(t, nodeOffset, key, val) ==
    IF nodeOffset = SIZE_MAX THEN insertIntoEmpty(t, key, val)
    ELSE LET node == NodeAt(t.nodes, nodeOffset) IN
         IF node.type = "Leaf" THEN insertLeaf(t, nodeOffset, key, val)
         ELSE \* insertIntoInternal
              LET i == ChildPos(node, key)
                  c == insertInternal(t, node.childIndices[i], key, val)
              IN absorbChild(c, nodeOffset, i)

\* the root-split branch of put without "rootIndex_ = newRoot"
publishRootNotStored(t, res) ==
    LET a == allocateNode(t.nodes)
        newRoot == a.off
        n == [InternalNode EXCEPT
                !.keys = Arr(1, res.promotedKey),
                !.childIndices = [i \in 0..1 |-> IF i = 0 THEN t.root
                                                 ELSE res.newChildOffset],
                !.numKeys = 1]
    IN [nodes |-> SetNode(a.nodes, newRoot, n), root |-> t.root]

\* the root-split branch of put: res is what insertInternal returned
publishRoot(t, res) ==
    LET a == allocateNode(t.nodes)
        newRoot == a.off
        n == [InternalNode EXCEPT
                !.keys = Arr(1, res.promotedKey),
                !.childIndices = [i \in 0..1 |-> IF i = 0 THEN t.root
                                                 ELSE res.newChildOffset],
                !.numKeys = 1]
    IN [nodes |-> SetNode(a.nodes, newRoot, n), root |-> newRoot]

put(t, key, value) ==
    IF t.root = SIZE_MAX
    THEN LET e == insertIntoEmpty(t, key, value) IN [nodes |-> e.nodes, root |-> e.root]
    ELSE LET r == insertInternal(t, t.root, key, value) IN
         IF r.res.splitted THEN publishRoot([nodes |-> r.nodes, root |-> r.root], r.res)
         ELSE [nodes |-> r.nodes, root |-> r.root]

(***************************************************************************)
(* B+ tree: the sequential client (one thread calls put, get, rangeQuery)  *)
(***************************************************************************)
NoOut == [op |-> "none", key |-> 0, low |-> 0, high |-> 0, max_results |-> 0,
          found |-> FALSE, value |-> EmptyValue, out |-> <<>>]

IdleThread == [pc |-> "idle", key |-> 0, value |-> EmptyValue, nodeOffset |-> 0,
               res |-> NoSplit, expect |-> EmptyValue, found |-> FALSE,
               outValue |-> EmptyValue, high |-> 0, max_results |-> 0, out |-> <<>>]

BtPut(k, v) ==
    LET t == put([nodes |-> nodes_, root |-> rootIndex_], k, v) IN
    /\ btOut.op = "none"
    /\ nodes_' = t.nodes
    /\ rootIndex_' = t.root
    /\ lastPut' = [lastPut EXCEPT ![k] = v]
    /\ UNCHANGED <<btOut, thr>>

BtGet(k) ==
    LET r == get(nodes_, rootIndex_, k) IN
    /\ btOut.op = "none"
    /\ btOut' = [NoOut EXCEPT !.op = "get", !.key = k,
                              !.found = r.found, !.value = r.value]
    /\ UNCHANGED <<nodes_, rootIndex_, lastPut, thr>>

BtRange(lo, hi, m) ==
    /\ btOut.op = "none"
    /\ btOut' = [NoOut EXCEPT !.op = "range", !.low = lo, !.high = hi,
                              !.max_results = m,
                              !.out = rangeQuery(nodes_, rootIndex_, lo, hi, m)]
    /\ UNCHANGED <<nodes_, rootIndex_, lastPut, thr>>

\* the client loads the tree: put of a key it has not put before
BtLoad(k) ==
    /\ lastPut[k] = 0
    /\ BtPut(k, MaxVal)

\* the client has read the result of its get / rangeQuery
BtReturn ==
    /\ btOut.op # "none"
    /\ btOut' = NoOut
    /\ UNCHANGED <<nodes_, rootIndex_, lastPut, thr>>

(***************************************************************************)
(* B+ tree: concurrent clients.  A thread's insertInternal, and a search,  *)
(* holds the lock of the node it starts from until it returns and takes    *)
(* the locks below it top-down, so each runs as one step against every     *)
(* other operation that starts from the same node or from an ancestor.     *)
(* What is not covered by a node lock is the read of rootIndex_ before     *)
(* the descent and the publication of a new root after it: these are       *)
(* steps of their own.                                                     *)
(***************************************************************************)
Busy(k) == \E t \in Threads : thr[t].pc \in {"insert", "publish"} /\ thr[t].key = k

\* put: "insertInternal(rootIndex_, ...)" evaluates its argument
PutBegin(t, k, v) ==
    /\ thr[t].pc = "idle"
    /\ lastPut[k] = 0 /\ ~Busy(k)
    /\ rootIndex_ # SIZE_MAX
    /\ thr' = [thr EXCEPT ![t] = [IdleThread EXCEPT !.pc = "insert", !.key = k,
                                     !.value = v, !.nodeOffset = rootIndex_]]
    /\ UNCHANGED <<nodes_, rootIndex_, lastPut, btOut>>

\* put: insertInternal runs from the root index read before; put returns
\* here when the root did not split
PutInsert(t) ==
    /\ thr[t].pc = "insert"
    /\ LET r == insertInternal([nodes |-> nodes_, root |-> rootIndex_],
                               thr[t].nodeOffset, thr[t].key, thr[t].value)
       IN /\ nodes_' = r.nodes
          /\ rootIndex_' = r.root
          /\ IF r.res.splitted
             THEN /\ thr' = [thr EXCEPT ![t].pc = "publish", ![t].res = r.res]
                  /\ UNCHANGED lastPut
             ELSE /\ thr' = [thr EXCEPT ![t] = IdleThread]
                  /\ lastPut' = [lastPut EXCEPT ![thr[t].key] = thr[t].value]
    /\ UNCHANGED btOut

\* put: under the tree lock, the new root is built and published
PutPublish(t) ==
    /\ thr[t].pc = "publish"
    /\ LET n == publishRoot([nodes |-> nodes_, root |-> rootIndex_], thr[t].res)
       IN /\ nodes_' = n.nodes
          /\ rootIndex_' = n.root
    /\ lastPut' = [lastPut EXCEPT ![thr[t].key] = thr[t].value]
    /\ thr' = [thr EXCEPT ![t] = IdleThread]
    /\ UNCHANGED btOut

\* get: "searchKey(rootIndex_, ...)" evaluates its argument; expect is the
\* value of the put of k that has returned, if any
GetBegin(t, k) ==
    /\ thr[t].pc = "idle"
    /\ rootIndex_ # SIZE_MAX
    /\ thr' = [thr EXCEPT ![t] = [IdleThread EXCEPT !.pc = "search", !.key = k,
                                     !.nodeOffset = rootIndex_,
                                     !.expect = lastPut[k]]]
    /\ UNCHANGED <<nodes_, rootIndex_, lastPut, btOut>>

GetSearch(t) ==
    /\ thr[t].pc = "search"
    /\ LET r == searchKey(nodes_, thr[t].nodeOffset, thr[t].key)
       IN thr' = [thr EXCEPT ![t].pc = "got", ![t].found = r.found,
                             ![t].outValue = r.value]
    /\ UNCHANGED <<nodes_, rootIndex_, lastPut, btOut>>

GetReturn(t) ==
    /\ thr[t].pc = "got"
    /\ thr' = [thr EXCEPT ![t] = IdleThread]
    /\ UNCHANGED <<nodes_, rootIndex_, lastPut, btOut>>

(***************************************************************************)
(* B+ tree: concurrent clients, lock by lock.  A std::shared_lock /        *)
(* std::unique_lock on nodes_[nodeOffset]->node_mutex lives until the      *)
(* function that declared it returns, and searchKey and insertInternal     *)
(* recurse into the child inside that scope.  locked[t] holds one entry    *)
(* per lock thread t owns: [node, mode, i], i being the child position     *)
(* insertIntoInternal descended through.                                   *)
(***************************************************************************)
Holders(n, modes) ==
    {t \in Threads : \E j \in 1..Len(locked[t]) :
                        locked[t][j].node = n /\ locked[t][j].mode \in modes}

\* std::unique_lock on the node's mutex can be taken
CanLockUnique(t, n) == Holders(n, {"shared", "unique"}) \subseteq {t}

\* std::shared_lock on the node's mutex can be taken
CanLockShared(t, n) == Holders(n, {"unique"}) \subseteq {t}

Lock(n, mode, i) == [node |-> n, mode |-> mode, i |-> i]

\* put: "insertInternal(rootIndex_, ...)" evaluates its argument
TreePutBegin(t, k, v) ==
    /\ thr[t].pc = "idle"
    /\ lastPut[k] = 0 /\ \A u \in Threads : thr[u].pc = "idle" \/ thr[u].key # k
    /\ rootIndex_ # SIZE_MAX
    /\ thr' = [thr EXCEPT ![t] = [IdleThread EXCEPT !.pc = "insertInternal", !.key = k,
                                     !.value = v, !.nodeOffset = rootIndex_]]
    /\ UNCHANGED <<nodes_, rootIndex_, lastPut, btOut, locked, tree_mutex>>

\* insertInternal(nodeOffset): the unique lock on the node; on an internal
\* node, insertIntoInternal chooses the child and calls insertInternal on it
InsertLock(t) ==
    /\ thr[t].pc = "insertInternal"
    /\ CanLockUnique(t, thr[t].nodeOffset)
    /\ LET node == NodeAt(nodes_, thr[t].nodeOffset)
           i == ChildPos(node, thr[t].key)
       IN IF node.type = "Leaf"
          THEN /\ locked' = [locked EXCEPT ![t] =
                                Append(@, Lock(thr[t].nodeOffset, "unique", 0))]
               /\ thr' = [thr EXCEPT ![t].pc = "insertLeaf"]
          ELSE /\ locked' = [locked EXCEPT ![t] =
                                Append(@, Lock(thr[t].nodeOffset, "unique", i))]
               /\ thr' = [thr EXCEPT ![t].nodeOffset = node.childIndices[i]]
    /\ UNCHANGED <<nodes_, rootIndex_, lastPut, btOut, tree_mutex>>

\* insertLeaf on the locked leaf; splitLeaf allocates the new leaf and
\* locks it
InsertLeaf(t) ==
    /\ thr[t].pc = "insertLeaf"
    /\ LET r == insertLeaf([nodes |-> nodes_, root |-> rootIndex_],
                           thr[t].nodeOffset, thr[t].key, thr[t].value)
       IN /\ nodes_' = r.nodes
          /\ thr' = [thr EXCEPT ![t].pc = "return", ![t].res = r.res]
          /\ locked' = IF r.res.splitted
                       THEN [locked EXCEPT ![t] =
                               Append(@, Lock(r.res.newChildOffset, "unique", 0))]
                       ELSE locked
    /\ UNCHANGED <<rootIndex_, lastPut, btOut, tree_mutex>>

\* the locks of thread t without those the innermost call holds: its node
\* and the node its split created
Returned(t) ==
    LET n == Len(locked[t])
        own == IF thr[t].res.splitted /\ locked[t][n].node = thr[t].res.newChildOffset
               THEN 2 ELSE 1
    IN SubSeq(locked[t], 1, n - own)

\* insertInternal returns: its locks are released; the caller, if any, is
\* insertIntoInternal on the parent, which takes in the child's result
\* (splitInternal allocates the new node and locks it); without a caller,
\* put goes on
InsertReturn(t) ==
    /\ thr[t].pc = "return"
    /\ LET rest == Returned(t) IN
       IF rest = <<>>
       THEN /\ locked' = [locked EXCEPT ![t] = <<>>]
            /\ UNCHANGED nodes_
            /\ IF thr[t].res.splitted
               THEN /\ thr' = [thr EXCEPT ![t].pc = "treeLock"]
                    /\ UNCHANGED lastPut
               ELSE /\ thr' = [thr EXCEPT ![t] = IdleThread]
                    /\ lastPut' = [lastPut EXCEPT ![thr[t].key] = thr[t].value]
       ELSE LET parent == rest[Len(rest)]
                r == absorbChild([nodes |-> nodes_, root |-> rootIndex_,
                                  res |-> thr[t].res], parent.node, parent.i)
            IN /\ nodes_' = r.nodes
               /\ thr' = [thr EXCEPT ![t].res = r.res, ![t].nodeOffset = parent.node]
               /\ locked' = [locked EXCEPT ![t] =
                                IF r.res.splitted
                                THEN Append(rest, Lock(r.res.newChildOffset, "unique", 0))
                                ELSE rest]
               /\ UNCHANGED lastPut
    /\ UNCHANGED <<rootIndex_, btOut, tree_mutex>>

\* put, root split: std::unique_lock treeLock(tree_mutex)
TreeLock(t) ==
    /\ thr[t].pc = "treeLock"
    /\ tree_mutex = 0
    /\ tree_mutex' = t
    /\ thr' = [thr EXCEPT ![t].pc = "newRoot"]
    /\ UNCHANGED <<nodes_, rootIndex_, lastPut, btOut, locked>>

\* put, root split: the new root is allocated, filled and published, and
\* put returns
NewRoot(t) ==
    /\ thr[t].pc = "newRoot"
    /\ LET n == publishRoot([nodes |-> nodes_, root |-> rootIndex_], thr[t].res)
       IN /\ nodes_' = n.nodes
          /\ rootIndex_' = n.root
    /\ tree_mutex' = 0
    /\ lastPut' = [lastPut EXCEPT ![thr[t].key] = thr[t].value]
    /\ thr' = [thr EXCEPT ![t] = IdleThread]
    /\ UNCHANGED <<btOut, locked>>

\* get: "searchKey(rootIndex_, ...)" evaluates its argument
TreeGetBegin(t, k) ==
    /\ thr[t].pc = "idle"
    /\ rootIndex_ # SIZE_MAX
    /\ thr' = [thr EXCEPT ![t] = [IdleThread EXCEPT !.pc = "searchKey", !.key = k,
                                     !.nodeOffset = rootIndex_,
                                     !.expect = lastPut[k]]]
    /\ UNCHANGED <<nodes_, rootIndex_, lastPut, btOut, locked, tree_mutex>>

\* searchKey(nodeOffset): the shared lock on the node; a leaf is scanned,
\* on an internal node searchKey is called on the chosen child
SearchLock(t) ==
    /\ thr[t].pc = "searchKey"
    /\ CanLockShared(t, thr[t].nodeOffset)
    /\ locked' = [locked EXCEPT ![t] = Append(@, Lock(thr[t].nodeOffset, "shared", 0))]
    /\ LET node == NodeAt(nodes_, thr[t].nodeOffset)
       IN IF node.type = "Leaf"
          THEN LET r == searchKey(nodes_, thr[t].nodeOffset, thr[t].key)
               IN thr' = [thr EXCEPT ![t].pc = "found", ![t].found = r.found,
                                     ![t].outValue = r.value]
          ELSE thr' = [thr EXCEPT ![t].nodeOffset =
                                     node.childIndices[ChildPos(node, thr[t].key)]]
    /\ UNCHANGED <<nodes_, rootIndex_, lastPut, btOut, tree_mutex>>

\* the calls of searchKey return: every lock of the descent is released
SearchReturn(t) ==
    /\ thr[t].pc = "found"
    /\ locked' = [locked EXCEPT ![t] = <<>>]
    /\ thr' = [thr EXCEPT ![t] = IdleThread]
    /\ UNCHANGED <<nodes_, rootIndex_, lastPut, btOut, tree_mutex>>

\* rangeQuery(low, high, max_results): "findLeafForKey(rootIndex_, low)"
\* evaluates its argument
TreeRangeBegin(t, low, high, m) ==
    /\ thr[t].pc = "idle"
    /\ rootIndex_ # SIZE_MAX /\ ~(low > high)
    /\ thr' = [thr EXCEPT ![t] = [IdleThread EXCEPT !.pc = "findLeafForKey", !.key = low,
                                     !.high = high, !.max_results = m,
                                     !.nodeOffset = rootIndex_]]
    /\ UNCHANGED <<nodes_, rootIndex_, lastPut, btOut, locked, tree_mutex>>

\* findLeafForKey(nodeOffset): the shared lock on the node; on an internal
\* node findLeafForKey is called on the chosen child
FindLeafLock(t) ==
    /\ thr[t].pc = "findLeafForKey"
    /\ CanLockShared(t, thr[t].nodeOffset)
    /\ locked' = [locked EXCEPT ![t] = Append(@, Lock(thr[t].nodeOffset, "shared", 0))]
    /\ LET node == NodeAt(nodes_, thr[t].nodeOffset)
       IN IF node.type = "Leaf"
          THEN thr' = [thr EXCEPT ![t].pc = "leafFound"]
          ELSE thr' = [thr EXCEPT ![t].nodeOffset =
                                     node.childIndices[ChildPos(node, thr[t].key)]]
    /\ UNCHANGED <<nodes_, rootIndex_, lastPut, btOut, tree_mutex>>

\* findLeafForKey that returns with the locks of the descent still held
FindLeafReturnLocked(t) ==
    /\ thr[t].pc = "leafFound"
    /\ thr' = [thr EXCEPT ![t].pc = "while"]
    /\ UNCHANGED <<nodes_, rootIndex_, lastPut, btOut, tree_mutex, locked>>

\* the calls of findLeafForKey return the leaf: every lock of the descent
\* is released; rangeQuery enters its loop with leafOff = nodeOffset
FindLeafReturn(t) ==
    /\ thr[t].pc = "leafFound"
    /\ locked' = [locked EXCEPT ![t] = <<>>]
    /\ thr' = [thr EXCEPT ![t].pc = "while"]
    /\ UNCHANGED <<nodes_, rootIndex_, lastPut, btOut, tree_mutex>>

\* the loop of rangeQuery: its test, and the shared lock on the leaf; when
\* the test fails rangeQuery returns
RangeLock(t) ==
    /\ thr[t].pc = "while"
    /\ IF thr[t].nodeOffset # SIZE_MAX /\ Len(thr[t].out) < thr[t].max_results
       THEN /\ CanLockShared(t, thr[t].nodeOffset)
            /\ locked' = [locked EXCEPT ![t] =
                             Append(@, Lock(thr[t].nodeOffset, "shared", 0))]
            /\ thr' = [thr EXCEPT ![t].pc = "leaf"]
       ELSE /\ thr' = [thr EXCEPT ![t] = IdleThread]
            /\ UNCHANGED locked
    /\ UNCHANGED <<nodes_, rootIndex_, lastPut, btOut, tree_mutex>>

\* the body of the loop: the leaf is scanned and leafOff moves on; the
\* leaf's lock is released at the end of the body, or by the return
RangeScan(t) ==
    /\ thr[t].pc = "leaf"
    /\ LET leaf == NodeAt(nodes_, thr[t].nodeOffset)
           r == ScanLeaf(leaf, 0, thr[t].out, thr[t].key, thr[t].high,
                         thr[t].max_results)
       IN thr' = [thr EXCEPT ![t] =
                    IF r.done THEN IdleThread
                    ELSE [@ EXCEPT !.pc = "while", !.out = r.out,
                                   !.nodeOffset = leaf.nextLeaf]]
    /\ locked' = [locked EXCEPT ![t] = SubSeq(@, 1, Len(@) - 1)]
    /\ UNCHANGED <<nodes_, rootIndex_, lastPut, btOut, tree_mutex>>

(***************************************************************************)
(* LSM tree: memtables and SSTables.  A memtable (tbb::concurrent_hash_map *)
(* <KeyType, ValueType>) is a function from the keys to NoEntry, a value   *)
(* or TOMBSTONE_VALUE.  A unique_ptr / shared_ptr is a sequence of at most *)
(* one element: <<>> is nullptr.                                           *)
(***************************************************************************)
TOMBSTONE_VALUE == -1
NoEntry == 0

EmptyMemTable == [k \in LKeys |-> NoEntry]

MtKeys(m) == {k \in LKeys : m[k] # NoEntry}

MtSize(m) == Cardinality(MtKeys(m))

MtEmpty(m) == MtKeys(m) = {}

SetMin(S) == CHOOSE x \in S : \A y \in S : x <= y

SetMax(S) == CHOOSE x \in S : \A y \in S : x >= y

\* create_from_memtable taking the largest key for both ends of the range
create_with_one_key(m, sstable_id) ==
    IF MtEmpty(m) THEN <<>>
    ELSE <<[id |-> sstable_id, min_key |-> SetMax(MtKeys(m)),
            max_key |-> SetMax(MtKeys(m)), data |-> m, entry_count |-> MtSize(m)]>>

\* SSTable::create_from_memtable: nullptr for an empty map
create_from_memtable(m, sstable_id) ==
    IF MtEmpty(m) THEN <<>>
    ELSE <<[id |-> sstable_id, min_key |-> SetMin(MtKeys(m)),
            max_key |-> SetMax(MtKeys(m)), data |-> m, entry_count |-> MtSize(m)]>>

\* RegisterBlockedBloomFilter::Query on the filter the SSTable constructor
\* filled with the keys of data: true for every key of data; for any other
\* key the lookup in data that follows decides find_key
BloomQuery(sst, key) == sst.data[key] # NoEntry

LMiss == [found |-> FALSE, value |-> NoEntry]

find_key(sst, key) ==
    IF key < sst.min_key \/ key > sst.max_key THEN LMiss
    ELSE IF ~BloomQuery(sst, key) THEN LMiss
    ELSE IF sst.data[key] # NoEntry
         THEN IF sst.data[key] = TOMBSTONE_VALUE THEN LMiss
              ELSE [found |-> TRUE, value |-> sst.data[key]]
         ELSE LMiss

(***************************************************************************)
(* LSM tree: the three stages of get.  A stage answers                     *)
(* [ret, found, value]: ret says that get returns from this stage.         *)
(***************************************************************************)
Pass == [ret |-> FALSE, found |-> FALSE, value |-> NoEntry]

Answer(m, key) ==
    IF m[key] = TOMBSTONE_VALUE THEN [ret |-> TRUE, found |-> FALSE, value |-> NoEntry]
    ELSE [ret |-> TRUE, found |-> TRUE, value |-> m[key]]

\* 1. the active memtable
getActive(active, key) ==
    IF active # <<>> /\ active[1][key] # NoEntry THEN Answer(active[1], key) ELSE Pass

\* 2. the immutable memtables, newest (back) to oldest (front)
RECURSIVE getImmutable(_, _, _)
getImmutable(imm, idx, key) ==
    IF idx = 0 THEN Pass
    ELSE IF imm[idx][key] # NoEntry THEN Answer(imm[idx], key)
    ELSE getImmutable(imm, idx - 1, key)

\* 3a. L0, from the back (highest id) to the front
RECURSIVE scanLevel0(_, _, _)
scanLevel0(level0_sstables, idx, key) ==
    IF idx = 0 THEN Pass
    ELSE LET sstable == level0_sstables[idx]
             r == find_key(sstable, key)
         IN IF key >= sstable.min_key /\ key <= sstable.max_key /\ r.found
            THEN [ret |-> TRUE, found |-> TRUE, value |-> r.value]
            ELSE scanLevel0(level0_sstables, idx - 1, key)

\* 3b. one level i >= 1, front to back
RECURSIVE scanLevel(_, _, _)
scanLevel(current_level_sstables, idx, key) ==
    IF idx > Len(current_level_sstables) THEN Pass
    ELSE LET sstable == current_level_sstables[idx]
             r == find_key(sstable, key)
         IN IF key >= sstable.min_key /\ key <= sstable.max_key
            THEN IF r.found THEN [ret |-> TRUE, found |-> TRUE, value |-> r.value]
                 ELSE scanLevel(current_level_sstables, idx + 1, key)
            ELSE IF sstable.min_key > key /\ sstable.id = current_level_sstables[1].id
            THEN scanLevel(current_level_sstables, idx + 1, key)
            ELSE IF sstable.min_key > key THEN Pass
            ELSE scanLevel(current_level_sstables, idx + 1, key)

\* 3b. levels i..n
RECURSIVE scanLevels(_, _, _)
scanLevels(levels, i, key) ==
    IF i >= Len(levels) THEN Pass
    ELSE LET r == scanLevel(levels[i + 1], 1, key)
         IN IF r.ret THEN r ELSE scanLevels(levels, i + 1, key)

\* 3. the SSTables, under the shared levels lock
getLevels(levels, key) ==
    LET r0 == IF Len(levels) # 0 THEN scanLevel0(levels[1], Len(levels[1]), key)
              ELSE Pass
    IN IF r0.ret THEN r0 ELSE scanLevels(levels, 1, key)

\* a get that runs with no other thread taking a step
GetNow(key) ==
    LET a == getActive(active_memtable_, key)
        b == getImmutable(immutable_memtables_, Len(immutable_memtables_), key)
        c == getLevels(levels_, key)
    IN IF a.ret THEN a ELSE IF b.ret THEN b ELSE c

(***************************************************************************)
(* LSM tree: flush and compaction                                          *)
(***************************************************************************)
\* the comparators of the two std::sort calls (SortSeq is the TLC module's sort)
ById(a, b) == a.id < b.id

ByMinKey(a, b) == IF a.min_key # b.min_key THEN a.min_key < b.min_key ELSE a.id < b.id

\* flush_memtable_to_l0 on [levels, next]
flush_memtable_to_l0(st, memtable_data_ptr) ==
    IF memtable_data_ptr = <<>> \/ MtEmpty(memtable_data_ptr[1]) THEN st
    ELSE LET new_sstable == create_from_memtable(memtable_data_ptr[1], st.next)
         IN [levels |-> IF new_sstable # <<>>
                        THEN [st.levels EXCEPT ![1] = SortSeq(@ \o new_sstable, ById)]
                        ELSE st.levels,
             next |-> st.next + 1]

RECURSIVE SumEntries(_, _)
SumEntries(level, idx) ==
    IF idx > Len(level) THEN 0 ELSE level[idx].entry_count + SumEntries(level, idx + 1)

get_level_total_entries(levels, level_idx) ==
    IF level_idx < 0 \/ level_idx >= Len(levels) THEN 0
    ELSE SumEntries(levels[level_idx + 1], 1)

RECURSIVE Scale(_, _)
Scale(max_entries, n) ==
    IF n = 0 THEN max_entries ELSE Scale(max_entries * level_entry_multiplier_, n - 1)

get_max_entries_for_level(level_idx) ==
    IF level_idx < 0 THEN 0
    ELSE IF level_idx = 0 THEN max_level0_sstables_ * sstable_target_entry_count_
    ELSE Scale(max_level0_sstables_ * sstable_target_entry_count_, level_idx)

\* the predicate compaction_worker_loop waits for (no shutdown requested)
CompactionNeeded(levels) ==
    \/ Len(levels[1]) > max_level0_sstables_
    \/ \E i \in 0..(max_levels_ - 2) :
          get_level_total_entries(levels, i) > get_max_entries_for_level(i)

\* a search for overlapping SSTables that finds none
find_no_sstables(levels, source_ssts, target_level_idx) == <<>>

find_overlapping_sstables_nolock(levels, source_ssts, target_level_idx) ==
    IF Len(source_ssts) = 0 \/ target_level_idx < 0 \/ target_level_idx >= max_levels_
    THEN <<>>
    ELSE LET overall_min_key == SetMin({source_ssts[i].min_key : i \in 1..Len(source_ssts)})
             overall_max_key == SetMax({source_ssts[i].max_key : i \in 1..Len(source_ssts)})
             overlaps(sst) == sst.min_key <= overall_max_key /\ sst.max_key >= overall_min_key
         IN SelectSeq(levels[target_level_idx + 1], overlaps)

NoPick == [source_level_idx |-> -1, ssts_from_source |-> <<>>,
           ssts_from_target_overlap |-> <<>>]

\* a check that picks the deepest level over its threshold
perform_compaction_check_deepest(levels) ==
    IF \E i \in 0..(max_levels_ - 2) :
          get_level_total_entries(levels, i) > get_max_entries_for_level(i)
    THEN LET i == SetMax({j \in 0..(max_levels_ - 2) :
                     get_level_total_entries(levels, j) > get_max_entries_for_level(j)})
         IN [source_level_idx |-> i, ssts_from_source |-> levels[i + 1],
             ssts_from_target_overlap |->
                 find_overlapping_sstables_nolock(levels, levels[i + 1], i + 1)]
    ELSE IF Len(levels[1]) > max_level0_sstables_
    THEN [source_level_idx |-> 0, ssts_from_source |-> levels[1],
          ssts_from_target_overlap |->
              find_overlapping_sstables_nolock(levels, levels[1], 1)]
    ELSE NoPick

\* perform_compaction_check up to the call of compact_sstables: the inputs
\* it copies under the levels lock
perform_compaction_check(levels) ==
    IF Len(levels[1]) > max_level0_sstables_
    THEN [source_level_idx |-> 0, ssts_from_source |-> levels[1],
          ssts_from_target_overlap |->
              IF max_levels_ > 1
              THEN find_overlapping_sstables_nolock(levels, levels[1], 1) ELSE <<>>]
    ELSE IF \E i \in 0..(max_levels_ - 2) :
               get_level_total_entries(levels, i) > get_max_entries_for_level(i)
    THEN LET i == SetMin({j \in 0..(max_levels_ - 2) :
                     get_level_total_entries(levels, j) > get_max_entries_for_level(j)})
         IN [source_level_idx |-> i, ssts_from_source |-> levels[i + 1],
             ssts_from_target_overlap |->
                 find_overlapping_sstables_nolock(levels, levels[i + 1], i + 1)]
    ELSE NoPick

\* load_map_from_sst_list: later SSTables of the list overwrite earlier ones
RECURSIVE load_map_from_sst_list(_, _, _)
load_map_from_sst_list(merged, sst_list, idx) ==
    IF idx > Len(sst_list) THEN merged
    ELSE load_map_from_sst_list(
             [k \in LKeys |-> IF sst_list[idx].data[k] # NoEntry
                              THEN sst_list[idx].data[k] ELSE merged[k]],
             sst_list, idx + 1)

\* a merge that does not erase the tombstones
merged_data_map_with_tombstones(ssts_from_source, ssts_from_target_overlap) ==
    load_map_from_sst_list(
        load_map_from_sst_list(EmptyMemTable, ssts_from_target_overlap, 1),
        ssts_from_source, 1)

\* a merge that loads the source level first and the target level over it
merged_data_map_source_first(ssts_from_source, ssts_from_target_overlap) ==
    LET m == load_map_from_sst_list(
                 load_map_from_sst_list(EmptyMemTable, ssts_from_source, 1),
                 ssts_from_target_overlap, 1)
    IN [k \in LKeys |-> IF m[k] = TOMBSTONE_VALUE THEN NoEntry ELSE m[k]]

\* merged_data_map of compact_sstables after the tombstones are erased
merged_data_map(ssts_from_source, ssts_from_target_overlap) ==
    LET m == load_map_from_sst_list(
                 load_map_from_sst_list(EmptyMemTable, ssts_from_target_overlap, 1),
                 ssts_from_source, 1)
    IN [k \in LKeys |-> IF m[k] = TOMBSTONE_VALUE THEN NoEntry ELSE m[k]]

\* the loop that cuts merged_data_map into SSTables; order is the order in
\* which the hash map's iterator yields the keys
RECURSIVE BuildSSTables(_, _, _, _, _, _)
BuildSSTables(merged, order, idx, build, out, next) ==
    IF idx > Len(order)
    THEN IF ~MtEmpty(build)
         THEN [ssts |-> out \o create_from_memtable(build, next), next |-> next + 1]
         ELSE [ssts |-> out, next |-> next]
    ELSE LET build2 == [build EXCEPT ![order[idx]] = merged[order[idx]]]
         IN IF MtSize(build2) >= sstable_target_entry_count_
            THEN BuildSSTables(merged, order, idx + 1, EmptyMemTable,
                               out \o create_from_memtable(build2, next), next + 1)
            ELSE BuildSSTables(merged, order, idx + 1, build2, out, next)

\* a removal that empties the level
remove_every_sst(level_vec, compacted_ssts) == <<>>

remove_compacted_ssts(level_vec, compacted_ssts) ==
    LET keep(sst_in_level) ==
            ~\E i \in 1..Len(compacted_ssts) : compacted_ssts[i].id = sst_in_level.id
    IN SelectSeq(level_vec, keep)

\* compact_sstables on [levels, next]
compact_sstables(st, source_level_idx, ssts_from_source, ssts_from_target_overlap, order) ==
    LET target_level_idx == source_level_idx + 1 IN
    IF Len(ssts_from_source) = 0 \/ target_level_idx >= max_levels_ THEN st
    ELSE LET merged == merged_data_map(ssts_from_source, ssts_from_target_overlap)
             b == BuildSSTables(merged, order, 1, EmptyMemTable, <<>>, st.next)
             l1 == [st.levels EXCEPT ![source_level_idx + 1] =
                        remove_compacted_ssts(@, ssts_from_source)]
             l2 == [l1 EXCEPT ![target_level_idx + 1] =
                        SortSeq(remove_compacted_ssts(@, ssts_from_target_overlap)
                                \o b.ssts, ByMinKey)]
         IN [levels |-> l2, next |-> b.next]

\* the two halves of the commit of compact_sstables
remove_inputs(levels, source_level_idx, ssts_from_source, ssts_from_target_overlap) ==
    LET l1 == [levels EXCEPT ![source_level_idx + 1] =
                  remove_compacted_ssts(@, ssts_from_source)]
    IN [l1 EXCEPT ![source_level_idx + 2] =
                  remove_compacted_ssts(@, ssts_from_target_overlap)]

install_outputs(levels, target_level_idx, new_ssts_for_target) ==
    [levels EXCEPT ![target_level_idx + 1] = SortSeq(@ \o new_ssts_for_target, ByMinKey)]

\* the orders in which an iterator can yield the keys of S
RECURSIVE Orders(_)
Orders(S) ==
    IF S = {} THEN {<<>>}
    ELSE UNION {{<<x>> \o o : o \in Orders(S \ {x})} : x \in S}

(***************************************************************************)
(* LSM tree: writer threads (put, del), reader threads (get), the flush    *)
(* worker and the compaction worker                                        *)
(***************************************************************************)
IdleWriter == [pc |-> "idle", key |-> 0, old_active_to_flush |-> <<>>]

\* snap: what the SSTables held for the key when the get took the shared
\* levels lock
NoSnap == [taken |-> FALSE, found |-> FALSE, value |-> NoEntry]

IdleReader == [pc |-> "idle", key |-> 0, clean |-> FALSE, quiet |-> FALSE,
               found |-> FALSE, outValue |-> NoEntry, snap |-> NoSnap]

\* the compaction worker about to evaluate the predicate of its wait
IdleCompactor == [pc |-> "check", pick |-> NoPick, new_ssts_for_target |-> <<>>]

NoHist == [val |-> NoEntry, n |-> 0, deleted |-> FALSE]

\* a put or del of key is between its insert and its return
Writing(key) == \E c \in Clients : cli[c].pc # "idle" /\ cli[c].key = key

\* put(key, value), and del(key) as put(key, TOMBSTONE_VALUE): under the
\* active lock the entry is written; put returns here unless the memtable
\* is full.  A get that is running is no longer one that began after the
\* last write returned.
Put(c, key, value) ==
    /\ cli[c].pc = "idle"
    /\ ~shutdown_requested_
    /\ nwrites < MaxWrites
    /\ LET active == IF active_memtable_ = <<>> THEN EmptyMemTable ELSE active_memtable_[1]
           written == [active EXCEPT ![key] = value]
       IN /\ active_memtable_' = <<written>>
          /\ cli' = [cli EXCEPT ![c] =
                IF MtSize(written) >= memtable_max_size_entries_
                THEN [IdleWriter EXCEPT !.pc = "swap", !.key = key]
                ELSE IdleWriter]
    /\ rdr' = [r \in Readers |->
                IF rdr[r].pc # "idle"
                THEN [rdr[r] EXCEPT !.clean = IF rdr[r].key = key THEN FALSE ELSE @,
                                    !.quiet = FALSE]
                ELSE rdr[r]]
    /\ hist' = [hist EXCEPT ![key] =
                  [val |-> value,
                   n |-> IF @.n < 2 THEN @.n + 1 ELSE 2,
                   deleted |-> @.deleted \/ value = TOMBSTONE_VALUE]]
    /\ authors' = authors \cup {c}
    /\ nwrites' = nwrites + 1
    /\ UNCHANGED <<shutdown_requested_, closer, immutable_memtables_, levels_, next_sstable_id_, flusher, compactor>>

\* schedule_flush_active_memtable that swaps without looking at the size
RotateSwapUnchecked(c) ==
    /\ cli[c].pc = "swap"
    /\ cli' = [cli EXCEPT ![c].pc = "push", ![c].old_active_to_flush = active_memtable_]
    /\ active_memtable_' = <<EmptyMemTable>>
    /\ UNCHANGED <<shutdown_requested_, closer, immutable_memtables_, levels_, next_sstable_id_, rdr, flusher,
                   compactor, hist, authors, nwrites>>

\* schedule_flush_active_memtable, under the active lock: a full active
\* memtable is swapped for a fresh one, else the call (and put) returns
RotateSwap(c) ==
    /\ cli[c].pc = "swap"
    /\ IF active_memtable_ # <<>>
          /\ MtSize(active_memtable_[1]) >= memtable_max_size_entries_
       THEN /\ cli' = [cli EXCEPT ![c].pc = "push",
                                  ![c].old_active_to_flush = active_memtable_]
            /\ active_memtable_' = <<EmptyMemTable>>
       ELSE /\ cli' = [cli EXCEPT ![c] = IdleWriter]
            /\ UNCHANGED active_memtable_
    /\ UNCHANGED <<shutdown_requested_, closer, immutable_memtables_, levels_, next_sstable_id_, rdr, flusher,
                   compactor, hist, authors, nwrites>>

\* schedule_flush_active_memtable, under the queue lock: the swapped-out
\* memtable is queued; put returns
RotatePush(c) ==
    /\ cli[c].pc = "push"
    /\ immutable_memtables_' = immutable_memtables_ \o cli[c].old_active_to_flush
    /\ cli' = [cli EXCEPT ![c] = IdleWriter]
    /\ UNCHANGED <<shutdown_requested_, closer, active_memtable_, levels_, next_sstable_id_, rdr, flusher,
                   compactor, hist, authors, nwrites>>

\* the writers fill the empty active memtable with the keys of written
\* (put for each, del for those of deleted) until memtable_max_size_entries_
\* is reached (with NumClients writers up to NumClients - 1 more entries get
\* in before the swap), and schedule_flush_active_memtable queues it
PutsAndRotate(written, deleted) ==
    /\ \A d \in Clients : cli[d].pc = "idle"
    /\ ~shutdown_requested_
    /\ active_memtable_ = <<EmptyMemTable>>
    /\ Cardinality(written) >= memtable_max_size_entries_
    /\ Cardinality(written) < memtable_max_size_entries_ + NumClients
    /\ deleted \subseteq written
    /\ nwrites + Cardinality(written) <= MaxBulkWrites
    /\ LET version(k) == nwrites + Cardinality({j \in written : j <= k})
           old_active_to_flush ==
               [k \in LKeys |-> IF k \notin written THEN NoEntry
                                ELSE IF k \in deleted THEN TOMBSTONE_VALUE
                                ELSE version(k)]
       IN /\ immutable_memtables_' = Append(immutable_memtables_, old_active_to_flush)
          /\ hist' = [k \in LKeys |->
                        IF k \notin written THEN hist[k]
                        ELSE [val |-> old_active_to_flush[k],
                              n |-> IF hist[k].n < 2 THEN hist[k].n + 1 ELSE 2,
                              deleted |-> hist[k].deleted \/ k \in deleted]]
    /\ authors' = authors \cup Clients
    /\ nwrites' = nwrites + Cardinality(written)
    /\ UNCHANGED <<shutdown_requested_, closer, active_memtable_, levels_,
                   next_sstable_id_, cli, rdr, flusher, compactor>>

Finish(r, a) == [rdr[r] EXCEPT !.pc = "ret", !.found = a.found, !.outValue = a.value]

\* get(key), stage 1.  clean: no write of key is running (the last write
\* of key has returned); quiet: no write at all is running.
GetActive(r, key) ==
    /\ rdr[r].pc = "idle"
    /\ ~shutdown_requested_
    /\ LET a == getActive(active_memtable_, key)
           me == [IdleReader EXCEPT
                    !.key = key,
                    !.clean = ~Writing(key),
                    !.quiet = \A c \in Clients : cli[c].pc = "idle"]
       IN rdr' = [rdr EXCEPT ![r] =
                    IF a.ret THEN [me EXCEPT !.pc = "ret", !.found = a.found,
                                             !.outValue = a.value]
                    ELSE [me EXCEPT !.pc = "imm"]]
    /\ UNCHANGED <<shutdown_requested_, closer, active_memtable_, immutable_memtables_, levels_, next_sstable_id_,
                   cli, flusher, compactor, hist, authors, nwrites>>

\* get, stage 2, under the queue lock
GetImmutable(r) ==
    /\ rdr[r].pc = "imm"
    /\ LET a == getImmutable(immutable_memtables_, Len(immutable_memtables_), rdr[r].key)
       IN rdr' = [rdr EXCEPT ![r] = IF a.ret THEN Finish(r, a)
                                    ELSE [rdr[r] EXCEPT !.pc = "lvl"]]
    /\ UNCHANGED <<shutdown_requested_, closer, active_memtable_, immutable_memtables_, levels_, next_sstable_id_,
                   cli, flusher, compactor, hist, authors, nwrites>>

\* levels_metadata_mutex_ is held shared by a get between its L0 scan and
\* its scan of the deeper levels, and exclusively by the compaction worker
\* between the removal of its inputs and the installation of its outputs
SharedHeld == \E r \in Readers : rdr[r].pc = "deep"

\* a levels lock that excludes nobody
NeverHeld == FALSE

ExclusiveHeld == compactor.pc = "install"

\* get, stage 3: the shared levels lock is taken and L0 is scanned; get
\* returns here if L0 has the key
GetLevel0(r) ==
    /\ rdr[r].pc = "lvl"
    /\ ~ExclusiveHeld
    /\ LET r0 == IF Len(levels_) # 0
                 THEN scanLevel0(levels_[1], Len(levels_[1]), rdr[r].key) ELSE Pass
           all == getLevels(levels_, rdr[r].key)
           me == [rdr[r] EXCEPT !.snap = [taken |-> TRUE, found |-> all.found,
                                          value |-> all.value]]
       IN rdr' = [rdr EXCEPT ![r] =
                    IF r0.ret THEN [me EXCEPT !.pc = "ret", !.found = r0.found,
                                              !.outValue = r0.value]
                    ELSE [me EXCEPT !.pc = "deep"]]
    /\ UNCHANGED <<shutdown_requested_, closer, active_memtable_, immutable_memtables_, levels_, next_sstable_id_,
                   cli, flusher, compactor, hist, authors, nwrites>>

\* get, stage 3, still under the shared lock: L1 and deeper; get returns
GetDeeper(r) ==
    /\ rdr[r].pc = "deep"
    /\ rdr' = [rdr EXCEPT ![r] = Finish(r, scanLevels(levels_, 1, rdr[r].key))]
    /\ UNCHANGED <<shutdown_requested_, closer, active_memtable_, immutable_memtables_, levels_, next_sstable_id_,
                   cli, flusher, compactor, hist, authors, nwrites>>

\* the caller has read the result of get
GetDone(r) ==
    /\ rdr[r].pc = "ret"
    /\ rdr' = [rdr EXCEPT ![r] = IdleReader]
    /\ UNCHANGED <<shutdown_requested_, closer, active_memtable_, immutable_memtables_, levels_, next_sstable_id_,
                   cli, flusher, compactor, hist, authors, nwrites>>

\* flush_worker_loop, under the queue lock: the front memtable is taken
FlushPop ==
    /\ flusher.pc = "wait"
    /\ Len(immutable_memtables_) > 0
    /\ flusher' = [pc |-> "flush", memtable_to_flush |-> <<Head(immutable_memtables_)>>]
    /\ immutable_memtables_' = Tail(immutable_memtables_)
    /\ UNCHANGED <<shutdown_requested_, closer, active_memtable_, levels_, next_sstable_id_, cli, rdr, compactor,
                   hist, authors, nwrites>>

\* compaction_cv_.notify_one() / notify_all(): a worker blocked in wait is
\* woken and evaluates its predicate again; on a worker that is not
\* blocked the signal has no effect
notify(worker) == IF worker.pc = "asleep" THEN [worker EXCEPT !.pc = "check"] ELSE worker

\* flush_worker_loop: flush_memtable_to_l0 of the memtable taken, then the
\* signal to the compaction worker, sent without compaction_mutex_, then
\* the loop condition
FlushInstall ==
    /\ flusher.pc = "flush"
    /\ ~SharedHeld /\ ~ExclusiveHeld
    /\ LET st == flush_memtable_to_l0([levels |-> levels_, next |-> next_sstable_id_],
                                      flusher.memtable_to_flush)
       IN /\ levels_' = st.levels
          /\ next_sstable_id_' = st.next
    /\ flusher' = [pc |-> IF shutdown_requested_ THEN "exited" ELSE "wait",
                   memtable_to_flush |-> <<>>]
    /\ compactor' = notify(compactor)
    /\ UNCHANGED <<shutdown_requested_, closer, active_memtable_, immutable_memtables_, cli, rdr, hist,
                   authors, nwrites>>

\* compaction_worker_loop: the predicate of the wait holds, no shutdown
\* is seen by the test that follows the wait, and perform_compaction_check
\* copies its inputs under the levels lock.  "passed": the worker was
\* between that test and perform_compaction_check when the shutdown was
\* requested.
CompactPick ==
    /\ \/ compactor.pc = "check" /\ ~shutdown_requested_ /\ CompactionNeeded(levels_)
       \/ compactor.pc = "passed"
    /\ ~SharedHeld
    /\ compactor' = [compactor EXCEPT !.pc = "compact",
                                      !.pick = perform_compaction_check(levels_)]
    /\ UNCHANGED <<shutdown_requested_, closer, active_memtable_, immutable_memtables_, levels_, next_sstable_id_,
                   cli, rdr, flusher, hist, authors, nwrites>>

\* compaction_worker_loop: the predicate of the wait is evaluated, under
\* compaction_mutex_ and the shared levels lock, and is false
CompactBlock ==
    /\ compactor.pc = "check"
    /\ ~shutdown_requested_
    /\ ~CompactionNeeded(levels_)
    /\ compactor' = [compactor EXCEPT !.pc = "block"]
    /\ UNCHANGED <<shutdown_requested_, closer, active_memtable_, immutable_memtables_, levels_, next_sstable_id_,
                   cli, rdr, flusher, hist, authors, nwrites>>

\* compaction_worker_loop: after the false predicate the worker blocks on
\* compaction_cv_
CompactSleep ==
    /\ compactor.pc = "block"
    /\ compactor' = [compactor EXCEPT !.pc = "asleep"]
    /\ UNCHANGED <<shutdown_requested_, closer, active_memtable_, immutable_memtables_, levels_, next_sstable_id_,
                   cli, rdr, flusher, hist, authors, nwrites>>

\* a spurious wake-up of condition_variable::wait
CompactSpurious ==
    /\ compactor.pc = "asleep"
    /\ compactor' = [compactor EXCEPT !.pc = "check"]
    /\ UNCHANGED <<shutdown_requested_, closer, active_memtable_, immutable_memtables_, levels_, next_sstable_id_,
                   cli, rdr, flusher, hist, authors, nwrites>>

\* compact_sstables on the inputs picked: the merged map is cut into new
\* SSTables; then, under the exclusive levels lock, the inputs are removed
\* from their levels
CompactRemove ==
    /\ compactor.pc = "compact"
    /\ ~SharedHeld
    /\ LET p == compactor.pick
           target_level_idx == p.source_level_idx + 1
       IN IF Len(p.ssts_from_source) = 0 \/ target_level_idx >= max_levels_
          THEN /\ compactor' = IdleCompactor
               /\ UNCHANGED <<shutdown_requested_, closer, levels_, next_sstable_id_>>
          ELSE LET merged == merged_data_map(p.ssts_from_source,
                                             p.ssts_from_target_overlap)
               IN \E order \in Orders(MtKeys(merged)) :
                    LET b == BuildSSTables(merged, order, 1, EmptyMemTable, <<>>,
                                           next_sstable_id_)
                    IN /\ levels_' = remove_inputs(levels_, p.source_level_idx,
                                                   p.ssts_from_source,
                                                   p.ssts_from_target_overlap)
                       /\ next_sstable_id_' = b.next
                       /\ compactor' = [compactor EXCEPT
                                           !.pc = "install",
                                           !.new_ssts_for_target = b.ssts]
    /\ UNCHANGED <<shutdown_requested_, closer, active_memtable_, immutable_memtables_, cli, rdr, flusher, hist,
                   authors, nwrites>>

\* compact_sstables, still under the exclusive levels lock: the new
\* SSTables are inserted into the target level, which is sorted
CompactInstall ==
    /\ compactor.pc = "install"
    /\ levels_' = install_outputs(levels_, compactor.pick.source_level_idx + 1,
                                  compactor.new_ssts_for_target)
    /\ compactor' = IdleCompactor
    /\ UNCHANGED <<shutdown_requested_, closer, active_memtable_, immutable_memtables_, next_sstable_id_, cli, rdr,
                   flusher, hist, authors, nwrites>>

\* ~LSMTree before its final flush
NoCloser == [pc |-> "none", queued |-> <<>>, active |-> <<>>, levels |-> <<>>,
             first_id |-> 0]

\* ~LSMTree, first part: the flag is set and both condition variables are
\* signalled, without their mutexes.  No put, del or get is running.
\* The flush worker, waiting on an empty queue, either sees the flag or had
\* evaluated its predicate before the flag was set and blocks after the
\* signal.  The compaction worker is woken if it was blocked; one that has
\* evaluated a true predicate either sees the flag in the test that follows
\* or had made that test before the flag was set.
Shutdown ==
    /\ closer.pc = "none"
    /\ \A c \in Clients : cli[c].pc = "idle"
    /\ \A r \in Readers : rdr[r].pc = "idle"
    /\ shutdown_requested_' = TRUE
    /\ closer' = [closer EXCEPT !.pc = "join"]
    /\ flusher' \in {flusher} \cup
                    (IF flusher.pc = "wait" /\ Len(immutable_memtables_) = 0
                     THEN {[flusher EXCEPT !.pc = "asleep"]} ELSE {})
    /\ compactor' \in {notify(compactor)} \cup
                      (IF compactor.pc = "check" /\ CompactionNeeded(levels_)
                       THEN {[compactor EXCEPT !.pc = "passed"]} ELSE {})
    /\ UNCHANGED <<active_memtable_, immutable_memtables_, levels_, next_sstable_id_,
                   cli, rdr, hist, authors, nwrites>>

\* flush_worker_loop: the loop condition, or the test after the wait with
\* an empty queue, sees the flag
FlushExit ==
    /\ flusher.pc = "wait"
    /\ shutdown_requested_
    /\ flusher' = [flusher EXCEPT !.pc = "exited"]
    /\ UNCHANGED <<active_memtable_, immutable_memtables_, levels_, next_sstable_id_,
                   cli, rdr, compactor, hist, authors, nwrites, shutdown_requested_,
                   closer>>

\* a spurious wake-up of the flush worker's wait
FlushSpurious ==
    /\ flusher.pc = "asleep"
    /\ flusher' = [flusher EXCEPT !.pc = "wait"]
    /\ UNCHANGED <<active_memtable_, immutable_memtables_, levels_, next_sstable_id_,
                   cli, rdr, compactor, hist, authors, nwrites, shutdown_requested_,
                   closer>>

\* compaction_worker_loop: the loop condition, or the predicate and the
\* test after the wait, sees the flag
CompactExit ==
    /\ compactor.pc = "check"
    /\ shutdown_requested_
    /\ compactor' = [compactor EXCEPT !.pc = "exited"]
    /\ UNCHANGED <<active_memtable_, immutable_memtables_, levels_, next_sstable_id_,
                   cli, rdr, flusher, hist, authors, nwrites, shutdown_requested_,
                   closer>>

\* the queue of the final flush with the active memtable at the front
final_queue_active_first(queue, active) ==
    IF active # <<>> /\ ~MtEmpty(active[1]) THEN active \o queue ELSE queue

\* ~LSMTree: a non-empty active memtable goes to the back of the queue
final_queue(queue, active) ==
    IF active # <<>> /\ ~MtEmpty(active[1]) THEN queue \o active ELSE queue

\* ~LSMTree: the loop that flushes the queue from its front
RECURSIVE final_flush(_, _, _)
final_flush(st, queue, idx) ==
    IF idx > Len(queue) THEN st
    ELSE final_flush(flush_memtable_to_l0(st, <<queue[idx]>>), queue, idx + 1)

\* ~LSMTree, second part, after both workers are joined: the final flush of
\* the active and the queued memtables; the destructor returns
Drain ==
    /\ closer.pc = "join"
    /\ flusher.pc = "exited"
    /\ compactor.pc = "exited"
    /\ LET st == final_flush([levels |-> levels_, next |-> next_sstable_id_],
                             final_queue(immutable_memtables_, active_memtable_), 1)
       IN /\ levels_' = st.levels
          /\ next_sstable_id_' = st.next
    /\ active_memtable_' = <<>>
    /\ immutable_memtables_' = <<>>
    /\ closer' = [pc |-> "done", queued |-> immutable_memtables_,
                  active |-> active_memtable_, levels |-> levels_,
                  first_id |-> next_sstable_id_]
    /\ UNCHANGED <<cli, rdr, flusher, compactor, hist, authors, nwrites,
                   shutdown_requested_>>

(***************************************************************************)
(* Register-blocked Bloom filter                                           *)
(* (src/old_implementation/lsm/RegisterBlockedBloomFilter.h)               *)
(***************************************************************************)
RECURSIVE Pow2(_)
Pow2(n) == IF n = 0 THEN 1 ELSE 2 * Pow2(n - 1)

\* the values of a key and of a hash
Words == 0..(Pow2(HashBits) - 1)

\* the operators |, & and ^ on unsigned integers
RECURSIVE BitOr(_, _)
BitOr(a, b) ==
    IF a = 0 THEN b ELSE IF b = 0 THEN a
    ELSE (IF a % 2 = 1 \/ b % 2 = 1 THEN 1 ELSE 0) + 2 * BitOr(a \div 2, b \div 2)

RECURSIVE BitAnd(_, _)
BitAnd(a, b) ==
    IF a = 0 \/ b = 0 THEN 0
    ELSE (IF a % 2 = 1 /\ b % 2 = 1 THEN 1 ELSE 0) + 2 * BitAnd(a \div 2, b \div 2)

RECURSIVE BitXor(_, _)
BitXor(a, b) ==
    IF a = 0 THEN b ELSE IF b = 0 THEN a
    ELSE (IF a % 2 # b % 2 THEN 1 ELSE 0) + 2 * BitXor(a \div 2, b \div 2)

\* the multiplier 0x9e3779b9 of ComputeHash: its low 16 bits, the only
\* ones that reach a product taken modulo 2^HashBits
HashCombiner == 31161

\* std::hash<uint64_t> is not known before ChooseHash
NoHash == <<>>

ComputeHash(key, i) == stdhash[BitXor(key, (HashCombiner * i) % Pow2(HashBits))]

\* GetBlock: the index of the block
GetBlock(hash) == ComputeHash(hash, 0) % num_blocks_

\* the loop of ConstructMask from i on
RECURSIVE MaskLoop(_, _, _)
MaskLoop(hash, i, mask) ==
    IF i >= num_hashes_ THEN mask
    ELSE MaskLoop(hash, i + 1, BitOr(mask, Pow2(ComputeHash(hash, i) % WordBits)))

ConstructMask(hash) == MaskLoop(hash, 1, 0)

\* Insert that sets the bits in the first block
InsertFirstBlock(blocks, key) ==
    [blocks EXCEPT ![1] = BitOr(@, ConstructMask(stdhash[key]))]

\* Insert(key) on blocks
Insert(blocks, key) ==
    LET hash == stdhash[key]
    IN [blocks EXCEPT ![GetBlock(hash) + 1] = BitOr(@, ConstructMask(hash))]

\* Query(key) on blocks
Query(blocks, key) ==
    LET hash == stdhash[key]
        mask == ConstructMask(hash)
    IN BitAnd(blocks[GetBlock(hash) + 1], mask) = mask

NoQuery == [key |-> -1, result |-> FALSE]

\* the build fixes std::hash<uint64_t>: any function on the key values
ChooseHash(h) ==
    /\ stdhash = NoHash
    /\ stdhash' = h
    /\ UNCHANGED <<blocks_, inserted, bloomOut>>

DoInsert(key) ==
    /\ stdhash # NoHash
    /\ blocks_' = Insert(blocks_, key)
    /\ inserted' = inserted \cup {key}
    /\ UNCHANGED <<stdhash, bloomOut>>

DoQuery(key) ==
    /\ stdhash # NoHash
    /\ bloomOut' = [key |-> key, result |-> Query(blocks_, key)]
    /\ UNCHANGED <<stdhash, blocks_, inserted>>

(***************************************************************************)
(* One SSTable with the Bloom filter its constructor fills                 *)
(* (src/old_implementation/lsm/SSTables.h).  ENABLE_LEARNED_INDEX is 0 in  *)
(* global.h: the build has no learned index.                               *)
(***************************************************************************)
\* the loop of the constructor: bloom.Insert of every key of data
RECURSIVE InsertKeys(_, _)
InsertKeys(blocks, keys) ==
    IF keys = {} THEN blocks
    ELSE LET k == SetMin(keys) IN InsertKeys(Insert(blocks, k), keys \ {k})

\* a constructor that leaves the filter as bloom(...) made it
SSTableNoInsert(i, min_k, max_k, d) ==
    [id |-> i, min_key |-> min_k, max_key |-> max_k, data |-> d,
     entry_count |-> MtSize(d), bloom |-> [b \in 1..num_blocks_ |-> 0]]

\* SSTable::SSTable(i, min_k, max_k, d)
SSTable(i, min_k, max_k, d) ==
    [id |-> i, min_key |-> min_k, max_key |-> max_k, data |-> d,
     entry_count |-> MtSize(d),
     bloom |-> InsertKeys([b \in 1..num_blocks_ |-> 0], MtKeys(d))]

\* std::make_shared<SSTable> at the end of create_from_memtable
make_shared_SSTable(made) ==
    IF made = <<>> THEN <<>>
    ELSE <<SSTable(made[1].id, made[1].min_key, made[1].max_key, made[1].data)>>

\* SSTable::find_key with bloom.Query computed on the filter
SSTable_find_key(sst, key) ==
    IF key < sst.min_key \/ key > sst.max_key THEN LMiss
    ELSE IF ~Query(sst.bloom, key) THEN LMiss
    ELSE IF sst.data[key] # NoEntry
         THEN IF sst.data[key] = TOMBSTONE_VALUE THEN LMiss
              ELSE [found |-> TRUE, value |-> sst.data[key]]
         ELSE LMiss

NoFind == [key |-> -1, res |-> LMiss]

\* the memtables an SSTable is made from: any map of the keys
SstMemtables == [LKeys -> {NoEntry, TOMBSTONE_VALUE} \cup Values]

\* SSTable::create_from_memtable(m, id), called once: an SSTable is never
\* modified after it is made
SstCreate(m, id) ==
    /\ stdhash # NoHash
    /\ sst_ptr = <<>>
    /\ sst_ptr' = make_shared_SSTable(create_from_memtable(m, id))
    /\ sstOut' = NoFind
    /\ UNCHANGED stdhash

\* find_key(key, value) on the SSTable; a key of a lookup is any uint64_t
SstFind(key) ==
    /\ sst_ptr # <<>>
    /\ sstOut' = [key |-> key, res |-> SSTable_find_key(sst_ptr[1], key)]
    /\ UNCHANGED <<stdhash, sst_ptr>>

(***************************************************************************)
(* SkipListMemtable                                                        *)
(* (src/old_implementation/LSM/memtable/skiplist_memtable.h, .cpp)         *)
(***************************************************************************)
MAX_LEVEL == MaxLevel
sizeof_SkipListNode == NodeBytes

\* the std::strings of length at most n over the characters 1..c
Strings(n, c) == UNION {[1..l -> 1..c] : l \in 0..n}

SlKeys == Strings(MaxKeyLen, NumChars)
SlValues == Strings(MaxValLen, NumValChars)

\* operator< of std::string
RECURSIVE StrLess(_, _)
StrLess(a, b) ==
    IF b = <<>> THEN FALSE
    ELSE IF a = <<>> THEN TRUE
    ELSE IF a[1] # b[1] THEN a[1] < b[1]
    ELSE StrLess(Tail(a), Tail(b))

nullptr == 0
head_ == 1
tail_ == 2

\* SkipListNode(k, v, lvl); next[i] of the code is next[i + 1]
SkipListNode(k, v, lvl) ==
    [key |-> k, value |-> v, is_deleted |-> FALSE, level |-> lvl,
     next |-> [i \in 1..MAX_LEVEL |-> nullptr]]

\* SkipListMemtable(max_size): head_ points to tail_ at every level
EmptyHeap ==
    <<[SkipListNode(<<>>, <<>>, MAX_LEVEL) EXCEPT !.next = [i \in 1..MAX_LEVEL |-> tail_]],
      SkipListNode(<<>>, <<>>, MAX_LEVEL)>>

\* findNode: the inner loop at level i, from current
RECURSIVE Advance(_, _, _, _)
Advance(h, current, i, key) ==
    LET next == h[current].next[i + 1]
    IN IF next = tail_ \/ ~StrLess(h[next].key, key) THEN current
       ELSE Advance(h, next, i, key)

\* findNode: the outer loop from level i down; update[i] of the code is
\* update[i + 1]
RECURSIVE Descend(_, _, _, _, _)
Descend(h, current, i, key, update) ==
    IF i < 0 THEN [current |-> current, update |-> update]
    ELSE LET c == Advance(h, current, i, key)
         IN Descend(h, c, i - 1, key, [update EXCEPT ![i + 1] = c])

findNode(h, key) ==
    LET d == Descend(h, head_, MAX_LEVEL - 1, key, [i \in 1..MAX_LEVEL |-> nullptr])
        current == h[d.current].next[1]
    IN [node |-> IF current # tail_ /\ h[current].key = key THEN current ELSE nullptr,
        update |-> d.update]

\* the linking loop of put that leaves the forward pointers of new_node null
RECURSIVE LinkNodeNoForward(_, _, _, _, _)
LinkNodeNoForward(h, new_node, update, i, level) ==
    IF i >= level THEN h
    ELSE LinkNodeNoForward([h EXCEPT ![update[i + 1]].next[i + 1] = new_node],
                           new_node, update, i + 1, level)

\* put: the loop that links new_node at the levels i .. level - 1
RECURSIVE LinkNode(_, _, _, _, _)
LinkNode(h, new_node, update, i, level) ==
    IF i >= level THEN h
    ELSE LET h1 == [h EXCEPT ![new_node].next[i + 1] = h[update[i + 1]].next[i + 1]]
             h2 == [h1 EXCEPT ![update[i + 1]].next[i + 1] = new_node]
         IN LinkNode(h2, new_node, update, i + 1, level)

\* put that does not look for an existing node
sl_put_always_new(m, key, value, level) ==
    LET new_memory == sizeof_SkipListNode + Len(key) + Len(value)
        new_node == Len(m.heap) + 1
    IN IF m.memory_usage_ + new_memory > max_size_ THEN [m |-> m, ret |-> FALSE]
       ELSE [m |-> [heap |-> LinkNode(Append(m.heap, SkipListNode(key, value, level)),
                                      new_node, findNode(m.heap, key).update, 0, level),
                    size_ |-> m.size_ + 1,
                    memory_usage_ |-> m.memory_usage_ + new_memory],
             ret |-> TRUE]

\* put that does not test the memory limit
sl_put_unlimited(m, key, value, level) ==
    LET existing == findNode(m.heap, key).node
        new_memory == sizeof_SkipListNode + Len(key) + Len(value)
        new_node == Len(m.heap) + 1
    IN IF existing # nullptr
       THEN [m |-> [m EXCEPT !.heap[existing].value = value,
                             !.heap[existing].is_deleted = FALSE],
             ret |-> TRUE]
       ELSE [m |-> [heap |-> LinkNode(Append(m.heap, SkipListNode(key, value, level)),
                                      new_node, findNode(m.heap, key).update, 0, level),
                    size_ |-> m.size_ + 1,
                    memory_usage_ |-> m.memory_usage_ + new_memory],
             ret |-> TRUE]

\* SkipListMemtable::put on m = [heap, size_, memory_usage_]; level is the
\* value getRandomLevel returns
sl_put(m, key, value, level) ==
    LET existing == findNode(m.heap, key).node
        new_memory == sizeof_SkipListNode + Len(key) + Len(value)
        new_node == Len(m.heap) + 1
    IN IF existing # nullptr
       THEN [m |-> [m EXCEPT !.heap[existing].value = value,
                             !.heap[existing].is_deleted = FALSE],
             ret |-> TRUE]
       ELSE IF m.memory_usage_ + new_memory > max_size_ THEN [m |-> m, ret |-> FALSE]
       ELSE [m |-> [heap |-> LinkNode(Append(m.heap, SkipListNode(key, value, level)),
                                      new_node, findNode(m.heap, key).update, 0, level),
                    size_ |-> m.size_ + 1,
                    memory_usage_ |-> m.memory_usage_ + new_memory],
             ret |-> TRUE]

\* SkipListMemtable::get; value is left as it was when get returns false
sl_get(h, key) ==
    LET node == findNode(h, key).node
    IN IF node # nullptr /\ ~h[node].is_deleted
       THEN [ret |-> TRUE, value |-> h[node].value]
       ELSE [ret |-> FALSE, value |-> <<>>]

\* delete_key that reports success without marking the node
sl_delete_key_unmarked(h, key) ==
    [heap |-> h, ret |-> findNode(h, key).node # nullptr]

\* SkipListMemtable::delete_key
sl_delete_key(h, key) ==
    LET node == findNode(h, key).node
    IN IF node # nullptr
       THEN [heap |-> [h EXCEPT ![node].is_deleted = TRUE], ret |-> TRUE]
       ELSE [heap |-> h, ret |-> FALSE]

\* putBatch: total_new_memory of the entries from idx on
RECURSIVE total_new_memory(_, _, _)
total_new_memory(h, kvs, idx) ==
    IF idx > Len(kvs) THEN 0
    ELSE (IF findNode(h, kvs[idx].key).node = nullptr
          THEN sizeof_SkipListNode + Len(kvs[idx].key) + Len(kvs[idx].value)
          ELSE 0) + total_new_memory(h, kvs, idx + 1)

\* SkipListMemtable::putBatch: the ways the call can end.  It holds
\* rw_mutex_ exclusively when its first put asks for the same mutex in
\* shared mode, which std::shared_mutex leaves undefined: lock_shared
\* throws std::system_error (resource_deadlock_would_occur) or never
\* returns.
sl_putBatch(m, kvs) ==
    IF m.memory_usage_ + total_new_memory(m.heap, kvs, 1) > max_size_
    THEN {[m |-> m, how |-> "returned", ret |-> FALSE]}
    ELSE IF Len(kvs) = 0
    THEN {[m |-> m, how |-> "returned", ret |-> TRUE]}
    ELSE {[m |-> m, how |-> "threw", ret |-> FALSE],
          [m |-> m, how |-> "blocked", ret |-> FALSE]}

\* begin() that does not skip the deleted nodes
sl_begin_first(h) == h[head_].next[1]

\* begin(): the first node that is not deleted, or tail_
RECURSIVE SkipToTail(_, _)
SkipToTail(h, first) ==
    IF first # tail_ /\ h[first].is_deleted THEN SkipToTail(h, h[first].next[1])
    ELSE first

sl_begin(h) == SkipToTail(h, h[head_].next[1])

sl_end == tail_

\* Iterator::operator++: the loop that skips deleted nodes
RECURSIVE SkipDeleted(_, _)
SkipDeleted(h, current) ==
    IF current # nullptr /\ h[current].is_deleted THEN SkipDeleted(h, h[current].next[1])
    ELSE current

Increment(h, current) ==
    IF current # nullptr THEN SkipDeleted(h, h[current].next[1]) ELSE current

\* Iterator::operator*
Deref(h, current) ==
    IF current # nullptr
    THEN [key |-> h[current].key, value |-> h[current].value,
          is_deleted |-> h[current].is_deleted]
    ELSE [key |-> <<>>, value |-> <<>>, is_deleted |-> FALSE]

\* for (it = begin(); it != end(); ++it) visit(*it): the entries visited, and
\* whether the loop ends within fuel steps
RECURSIVE Iterate(_, _, _, _)
Iterate(h, current, fuel, visited) ==
    IF current = sl_end THEN [terminated |-> TRUE, visited |-> visited]
    ELSE IF fuel = 0 THEN [terminated |-> FALSE, visited |-> visited]
    ELSE Iterate(h, Increment(h, current), fuel - 1, Append(visited, Deref(h, current)))

\* validate: the walk from current at level i
RECURSIVE ValidateWalk(_, _, _)
ValidateWalk(h, current, i) ==
    IF i < 0 THEN TRUE
    ELSE IF h[current].next[i + 1] # tail_
    THEN IF h[current].next[i + 1] = nullptr THEN FALSE
         ELSE ValidateWalk(h, h[current].next[i + 1], i)
    ELSE ValidateWalk(h, current, i - 1)

\* SkipListMemtable::validate
validate(h) ==
    IF \E i \in 0..(MAX_LEVEL - 1) : h[head_].next[i + 1] = nullptr THEN FALSE
    ELSE ValidateWalk(h, head_, MAX_LEVEL - 1)

KeyValues == [key : SlKeys, value : SlValues]
Batches == UNION {[1..l -> KeyValues] : l \in 0..MaxBatch}

Memtable == [heap |-> heap, size_ |-> size_, memory_usage_ |-> memory_usage_]

NoCall == [op |-> "none", key |-> <<>>, how |-> "returned", ret |-> FALSE,
           visited |-> <<>>]
NeverPut == [put |-> FALSE, val |-> <<>>, deleted |-> FALSE]

\* the thread of the caller is not blocked in a call
Running == slOut.how # "blocked"

\* put(key, value)
DoPut(key, value) ==
    /\ Running
    /\ \E level \in 1..MAX_LEVEL :
          LET r == sl_put(Memtable, key, value, level)
          IN /\ heap' = r.m.heap
             /\ size_' = r.m.size_
             /\ memory_usage_' = r.m.memory_usage_
             /\ slOut' = [NoCall EXCEPT !.op = "put", !.key = key, !.ret = r.ret]
             /\ slHist' = IF r.ret
                          THEN [slHist EXCEPT ![key] =
                                   [put |-> TRUE, val |-> value, deleted |-> FALSE]]
                          ELSE slHist

\* get(key, value)
DoGet(key) ==
    /\ Running
    /\ LET r == sl_get(heap, key)
       IN slOut' = [NoCall EXCEPT !.op = "get", !.key = key, !.ret = r.ret]
    /\ UNCHANGED <<heap, size_, memory_usage_, slHist>>

\* delete_key(key)
DoDelete(key) ==
    /\ Running
    /\ LET r == sl_delete_key(heap, key)
       IN /\ heap' = r.heap
          /\ slOut' = [NoCall EXCEPT !.op = "delete_key", !.key = key, !.ret = r.ret]
          /\ slHist' = IF r.ret THEN [slHist EXCEPT ![key].deleted = TRUE] ELSE slHist
    /\ UNCHANGED <<size_, memory_usage_>>

\* putBatch(kvs)
DoPutBatch(kvs) ==
    /\ Running
    /\ \E r \in sl_putBatch(Memtable, kvs) :
          /\ heap' = r.m.heap
          /\ size_' = r.m.size_
          /\ memory_usage_' = r.m.memory_usage_
          /\ slOut' = [NoCall EXCEPT !.op = "putBatch", !.how = r.how, !.ret = r.ret]
    /\ UNCHANGED slHist

\* a loop over begin() .. end()
DoIterate ==
    /\ Running
    /\ LET r == Iterate(heap, sl_begin(heap), Len(heap), <<>>)
       IN slOut' = [NoCall EXCEPT !.op = "iterate",
                                  !.how = IF r.terminated THEN "returned" ELSE "blocked",
                                  !.ret = r.terminated, !.visited = r.visited]
    /\ UNCHANGED <<heap, size_, memory_usage_, slHist>>

\* validate()
DoValidate ==
    /\ Running
    /\ slOut' = [NoCall EXCEPT !.op = "validate", !.ret = validate(heap)]
    /\ UNCHANGED <<heap, size_, memory_usage_, slHist>>

\* clear(): every node but head_ and tail_ is deleted, head_ points to
\* tail_ at every level, the counters are zero
DoClear ==
    /\ Running
    /\ heap' = EmptyHeap
    /\ size_' = 0
    /\ memory_usage_' = 0
    /\ slOut' = [NoCall EXCEPT !.op = "clear", !.ret = TRUE]
    /\ slHist' = [k \in SlKeys |-> NeverPut]

(***************************************************************************)
(* SkipListMemtable::put called by several threads.  put holds rw_mutex_   *)
(* shared, so the calls run at the same time; each step below is one       *)
(* atomic load or store of the code (the traversals of findNode are taken  *)
(* as one step each).                                                      *)
(***************************************************************************)
IdlePutter == [pc |-> "idle", key |-> <<>>, value |-> <<>>, level |-> 0,
               new_node |-> nullptr, update |-> <<>>, i |-> 0, calls |-> 0,
               done |-> {}]

\* the keys some thread is putting
KeysInFlight == {slThr[t].key : t \in {u \in Threads : slThr[u].pc # "idle"}}

\* put, up to the second findNode: the key is not stored, the memory test,
\* the new node, update[]
PutFind(t, key, value, level) ==
    /\ slThr[t].pc = "idle"
    /\ slThr[t].calls < MaxCalls
    /\ findNode(heap, key).node = nullptr
    /\ key \notin KeysInFlight
    /\ LET new_memory == sizeof_SkipListNode + Len(key) + Len(value)
       IN IF memory_usage_ + new_memory > max_size_
          THEN /\ slThr' = [slThr EXCEPT ![t].calls = @ + 1]
               /\ UNCHANGED heap
          ELSE /\ heap' = Append(heap, SkipListNode(key, value, level))
               /\ slThr' = [slThr EXCEPT ![t] =
                     [@ EXCEPT !.pc = "load", !.key = key, !.value = value,
                               !.level = level, !.new_node = Len(heap) + 1,
                               !.update = findNode(heap, key).update,
                               !.i = 0, !.calls = @ + 1]]
    /\ UNCHANGED <<size_, memory_usage_, slOut, slHist>>

\* new_node->next[i].store(update[i]->next[i].load())
PutLoad(t) ==
    /\ slThr[t].pc = "load"
    /\ LET me == slThr[t]
       IN heap' = [heap EXCEPT ![me.new_node].next[me.i + 1] =
                                   heap[me.update[me.i + 1]].next[me.i + 1]]
    /\ slThr' = [slThr EXCEPT ![t].pc = "store"]
    /\ UNCHANGED <<size_, memory_usage_, slOut, slHist>>

\* update[i]->next[i].store(new_node); ++i
PutStore(t) ==
    /\ slThr[t].pc = "store"
    /\ LET me == slThr[t]
       IN /\ heap' = [heap EXCEPT ![me.update[me.i + 1]].next[me.i + 1] = me.new_node]
          /\ slThr' = [slThr EXCEPT ![t].i = @ + 1,
                                    ![t].pc = IF me.i + 1 < me.level THEN "load"
                                              ELSE "count"]
    /\ UNCHANGED <<size_, memory_usage_, slOut, slHist>>

\* size_.fetch_add(1); memory_usage_.fetch_add(new_memory); return true
PutCount(t) ==
    /\ slThr[t].pc = "count"
    /\ LET me == slThr[t]
       IN /\ size_' = size_ + 1
          /\ memory_usage_' = memory_usage_ + sizeof_SkipListNode
                                 + Len(me.key) + Len(me.value)
          /\ slThr' = [slThr EXCEPT ![t] =
                [IdlePutter EXCEPT !.calls = me.calls,
                                   !.done = me.done \cup
                                      {[key |-> me.key, value |-> me.value]}]]
    /\ UNCHANGED <<heap, slOut, slHist>>

(***************************************************************************)
(* CustomSkipListMemtable (custom_skiplist_memtable.cpp), the memtable     *)
(* that createMemtable returns when USE_CUSTOM_SKIPLIST is defined          *)
(* (memtable/global.h:7, memtable_factory.cpp:14-17).  The model follows    *)
(* rw_mutex_: who owns it, and which statement of its call every thread is  *)
(* at.  The steps are the lock operations and the returns.                  *)
(***************************************************************************)
Unlocked == [writer |-> 0, readers |-> {}]

\* a thread that is in no call; op, how and ret describe its last call
IdleCaller == [pc |-> "idle", op |-> "none", key |-> <<>>, value |-> <<>>,
               kvs |-> <<>>, how |-> "returned", ret |-> FALSE]

CustomOps == {"put", "update", "putBatch", "get"}

\* a thread calls put(key, value), update(key, value), putBatch(kvs) or
\* get(key, value); update is put (line 87).  The thread is now at the first
\* statement of the method, which takes rw_mutex_.
CustomCall(t, op, key, value, kvs) ==
    /\ cmThr[t].pc = "idle"
    /\ op \in CustomOps
    /\ op = "putBatch" \/ kvs = <<>>
    /\ op # "putBatch" \/ (key = <<>> /\ value = <<>>)
    /\ cmThr' = [cmThr EXCEPT ![t] =
                    [pc |-> "lock", op |-> op, key |-> key, value |-> value,
                     kvs |-> kvs, how |-> "running", ret |-> FALSE]]
    /\ UNCHANGED rw_mutex_

\* std::unique_lock<std::shared_mutex> write_lock(rw_mutex_) of put (line 30)
\* and of putBatch (line 92): taken when no thread owns the mutex.  put goes
\* on to get(key, existing_value) (line 34); putBatch to get(kv.key, ...)
\* for the first entry (line 99), or, when kvs is empty, past both loops and
\* the memory check to return true (line 115).
UniqueLock(t) ==
    /\ cmThr[t].pc = "lock"
    /\ cmThr[t].op \in {"put", "update", "putBatch"}
    /\ rw_mutex_ = Unlocked
    /\ rw_mutex_' = [rw_mutex_ EXCEPT !.writer = t]
    /\ cmThr' = [cmThr EXCEPT ![t].pc =
                    IF cmThr[t].op = "putBatch" /\ cmThr[t].kvs = <<>>
                    THEN "return" ELSE "get"]

\* std::shared_lock<std::shared_mutex> read_lock(rw_mutex_) of a get that a
\* client called (line 58): taken when no thread owns the mutex exclusively
SharedLock(t) ==
    /\ cmThr[t].pc = "lock"
    /\ cmThr[t].op = "get"
    /\ rw_mutex_.writer = 0
    /\ rw_mutex_' = [rw_mutex_ EXCEPT !.readers = @ \cup {t}]
    /\ cmThr' = [cmThr EXCEPT ![t].pc = "find"]

\* the rest of get (lines 60-68): no key is ever inserted (no put gets past
\* line 34), find_wait_free finds nothing, get returns false and read_lock
\* is released
CustomGetReturn(t) ==
    /\ cmThr[t].pc = "find"
    /\ rw_mutex_' = [rw_mutex_ EXCEPT !.readers = @ \ {t}]
    /\ cmThr' = [cmThr EXCEPT ![t] =
                    [IdleCaller EXCEPT !.op = cmThr[t].op,
                                       !.how = "returned", !.ret = FALSE]]

\* the outcomes of lock_shared on a std::shared_mutex that the calling
\* thread owns exclusively.  The behaviour is undefined: libstdc++ throws
\* std::system_error when pthread_rwlock_rdlock reports EDEADLK, other
\* implementations wait for the owner, which is the waiting thread itself.
LockSharedOwned == {"threw", "blocked"}

\* the lock_shared (line 58) of the get that put (line 34) and putBatch
\* (line 99) call while the thread holds write_lock.  When it throws, the
\* exception leaves get and put or putBatch, and write_lock is released on
\* the way; when it blocks, the thread stays there with write_lock held.
NestedGet(t, outcome) ==
    /\ cmThr[t].pc = "get"
    /\ rw_mutex_.writer = t
    /\ outcome \in LockSharedOwned
    /\ IF outcome = "threw"
       THEN /\ rw_mutex_' = [rw_mutex_ EXCEPT !.writer = 0]
            /\ cmThr' = [cmThr EXCEPT ![t] =
                            [IdleCaller EXCEPT !.op = cmThr[t].op,
                                               !.how = "threw"]]
       ELSE /\ cmThr' = [cmThr EXCEPT ![t].pc = "blocked",
                                      ![t].how = "blocked"]
            /\ UNCHANGED rw_mutex_

\* putBatch of an empty batch: return true (line 115), write_lock released
PutBatchReturn(t) ==
    /\ cmThr[t].pc = "return"
    /\ rw_mutex_.writer = t
    /\ rw_mutex_' = [rw_mutex_ EXCEPT !.writer = 0]
    /\ cmThr' = [cmThr EXCEPT ![t] =
                    [IdleCaller EXCEPT !.op = cmThr[t].op,
                                       !.how = "returned", !.ret = TRUE]]

(***************************************************************************)
(* Specifications                                                          *)
(***************************************************************************)
\* BPlusTree(): the root is an empty leaf.  LSMTree(): an empty active
\* memtable, max_levels_ empty levels, both workers at the head of their
\* loops.  RegisterBlockedBloomFilter(): num_blocks_ blocks, all zero.
\* SkipListMemtable(max_size_): head_ and tail_, no entry.
\* CustomSkipListMemtable(max_size): rw_mutex_ free, no thread in a call.
Init ==
    /\ nodes_ = allocateLeaf(<<>>).nodes
    /\ rootIndex_ = allocateLeaf(<<>>).off
    /\ lastPut = [k \in Keys \cup LoadKeys |-> 0]
    /\ btOut = NoOut
    /\ thr = [t \in Threads |-> IdleThread]
    /\ locked = [t \in Threads |-> <<>>]
    /\ tree_mutex = 0
    /\ active_memtable_ = <<EmptyMemTable>>
    /\ immutable_memtables_ = <<>>
    /\ levels_ = [i \in 1..max_levels_ |-> <<>>]
    /\ next_sstable_id_ = 0
    /\ cli = [c \in Clients |-> IdleWriter]
    /\ rdr = [r \in Readers |-> IdleReader]
    /\ flusher = [pc |-> "wait", memtable_to_flush |-> <<>>]
    /\ compactor = IdleCompactor
    /\ hist = [k \in LKeys |-> NoHist]
    /\ authors = {}
    /\ nwrites = 0
    /\ shutdown_requested_ = FALSE
    /\ closer = NoCloser
    /\ stdhash = NoHash
    /\ blocks_ = [i \in 1..num_blocks_ |-> 0]
    /\ inserted = {}
    /\ bloomOut = NoQuery
    /\ heap = EmptyHeap
    /\ size_ = 0
    /\ memory_usage_ = 0
    /\ slOut = NoCall
    /\ slHist = [k \in SlKeys |-> NeverPut]
    /\ slThr = [t \in Threads |-> IdlePutter]
    /\ sst_ptr = <<>>
    /\ sstOut = NoFind
    /\ rw_mutex_ = Unlocked
    /\ cmThr = [t \in Threads |-> IdleCaller]

\* the B+ tree with one client thread
NextBT ==
    \/ \E k \in Keys, v \in Values : BtPut(k, v) /\ UNCHANGED nonBtVars
    \/ \E k \in Keys : BtGet(k) /\ UNCHANGED nonBtVars
    \/ \E lo \in Keys, hi \in Keys, m \in 0..MaxResults :
          BtRange(lo, hi, m) /\ UNCHANGED nonBtVars
    \/ BtReturn /\ UNCHANGED nonBtVars

SpecBT == Init /\ [][NextBT]_vars

\* the B+ tree with concurrent client threads
NextBTC ==
    \/ \E t \in Threads, k \in Keys, v \in Values : PutBegin(t, k, v) /\ UNCHANGED nonBtVars
    \/ \E t \in Threads : PutInsert(t) /\ UNCHANGED nonBtVars
    \/ \E t \in Threads : PutPublish(t) /\ UNCHANGED nonBtVars
    \/ \E t \in Threads, k \in Keys : GetBegin(t, k) /\ UNCHANGED nonBtVars
    \/ \E t \in Threads : GetSearch(t) /\ UNCHANGED nonBtVars
    \/ \E t \in Threads : GetReturn(t) /\ UNCHANGED nonBtVars

SpecBTC == Init /\ [][NextBTC]_vars

\* the B+ tree loaded by one client thread, over a larger set of keys
NextBTW ==
    \E k \in LoadKeys : BtLoad(k) /\ UNCHANGED nonBtVars

SpecBTW == Init /\ [][NextBTW]_vars

\* the B+ tree with NumThreads client threads, one lock at a step
NextBTL ==
    \/ \E t \in Threads, k \in Keys, v \in Values :
          TreePutBegin(t, k, v) /\ UNCHANGED nonBPlusTreeVars
    \/ \E t \in Threads : InsertLock(t) /\ UNCHANGED nonBPlusTreeVars
    \/ \E t \in Threads : InsertLeaf(t) /\ UNCHANGED nonBPlusTreeVars
    \/ \E t \in Threads : InsertReturn(t) /\ UNCHANGED nonBPlusTreeVars
    \/ \E t \in Threads : TreeLock(t) /\ UNCHANGED nonBPlusTreeVars
    \/ \E t \in Threads : NewRoot(t) /\ UNCHANGED nonBPlusTreeVars
    \/ \E t \in Threads, k \in GetKeys :
          TreeGetBegin(t, k) /\ UNCHANGED nonBPlusTreeVars
    \/ \E t \in Threads : SearchLock(t) /\ UNCHANGED nonBPlusTreeVars
    \/ \E t \in Threads : SearchReturn(t) /\ UNCHANGED nonBPlusTreeVars

SpecBTL == Init /\ [][NextBTL]_vars

\* the B+ tree with NumThreads client threads that call put, get and
\* rangeQuery, one lock at a step
NextBTD ==
    \/ \E t \in Threads, k \in Keys :
          TreePutBegin(t, k, MaxVal) /\ UNCHANGED nonBPlusTreeVars
    \/ \E t \in Threads : InsertLock(t) /\ UNCHANGED nonBPlusTreeVars
    \/ \E t \in Threads : InsertLeaf(t) /\ UNCHANGED nonBPlusTreeVars
    \/ \E t \in Threads : InsertReturn(t) /\ UNCHANGED nonBPlusTreeVars
    \/ \E t \in Threads : TreeLock(t) /\ UNCHANGED nonBPlusTreeVars
    \/ \E t \in Threads : NewRoot(t) /\ UNCHANGED nonBPlusTreeVars
    \/ \E t \in Threads, k \in GetKeys :
          TreeGetBegin(t, k) /\ UNCHANGED nonBPlusTreeVars
    \/ \E t \in Threads : SearchLock(t) /\ UNCHANGED nonBPlusTreeVars
    \/ \E t \in Threads : SearchReturn(t) /\ UNCHANGED nonBPlusTreeVars
    \/ \E t \in Threads, low \in GetKeys :
          TreeRangeBegin(t, low, MaxKey, MaxResults) /\ UNCHANGED nonBPlusTreeVars
    \/ \E t \in Threads : FindLeafLock(t) /\ UNCHANGED nonBPlusTreeVars
    \/ \E t \in Threads : FindLeafReturn(t) /\ UNCHANGED nonBPlusTreeVars
    \/ \E t \in Threads : RangeLock(t) /\ UNCHANGED nonBPlusTreeVars
    \/ \E t \in Threads : RangeScan(t) /\ UNCHANGED nonBPlusTreeVars

SpecBTD == Init /\ [][NextBTD]_vars

\* the LSM tree: writers, readers and the two workers, on the keys GetKeys.
\* Every put writes a fresh value, the number of the write.
NextLSM ==
    \/ \E c \in Clients, k \in GetKeys : Put(c, k, nwrites + 1) /\ UNCHANGED nonLsmVars
    \/ \E c \in Clients, k \in GetKeys : Put(c, k, TOMBSTONE_VALUE) /\ UNCHANGED nonLsmVars
    \/ \E c \in Clients : RotateSwap(c) /\ UNCHANGED nonLsmVars
    \/ \E c \in Clients : RotatePush(c) /\ UNCHANGED nonLsmVars
    \/ \E r \in Readers, k \in GetKeys : GetActive(r, k) /\ UNCHANGED nonLsmVars
    \/ \E r \in Readers : GetImmutable(r) /\ UNCHANGED nonLsmVars
    \/ \E r \in Readers : GetLevel0(r) /\ UNCHANGED nonLsmVars
    \/ \E r \in Readers : GetDeeper(r) /\ UNCHANGED nonLsmVars
    \/ \E r \in Readers : GetDone(r) /\ UNCHANGED nonLsmVars
    \/ FlushPop /\ UNCHANGED nonLsmVars
    \/ FlushInstall /\ UNCHANGED nonLsmVars
    \/ CompactPick /\ UNCHANGED nonLsmVars
    \/ CompactBlock /\ UNCHANGED nonLsmVars
    \/ CompactSleep /\ UNCHANGED nonLsmVars
    \/ CompactSpurious /\ UNCHANGED nonLsmVars
    \/ CompactRemove /\ UNCHANGED nonLsmVars
    \/ CompactInstall /\ UNCHANGED nonLsmVars

SpecLSM == Init /\ [][NextLSM]_vars

\* the LSM tree without readers: writers on all keys and the two workers
NextLSMW ==
    \/ \E c \in Clients, k \in LKeys : Put(c, k, nwrites + 1) /\ UNCHANGED nonLsmVars
    \/ \E c \in Clients, k \in LKeys : Put(c, k, TOMBSTONE_VALUE) /\ UNCHANGED nonLsmVars
    \/ \E c \in Clients : RotateSwap(c) /\ UNCHANGED nonLsmVars
    \/ \E c \in Clients : RotatePush(c) /\ UNCHANGED nonLsmVars
    \/ FlushPop /\ UNCHANGED nonLsmVars
    \/ FlushInstall /\ UNCHANGED nonLsmVars
    \/ CompactPick /\ UNCHANGED nonLsmVars
    \/ CompactBlock /\ UNCHANGED nonLsmVars
    \/ CompactSleep /\ UNCHANGED nonLsmVars
    \/ CompactSpurious /\ UNCHANGED nonLsmVars
    \/ CompactRemove /\ UNCHANGED nonLsmVars
    \/ CompactInstall /\ UNCHANGED nonLsmVars

SpecLSMW == Init /\ [][NextLSMW]_vars

\* the LSM tree with writers that fill and rotate one memtable at a step,
\* and both workers
NextLSMR ==
    \/ \E written \in SUBSET LKeys, deleted \in SUBSET LKeys :
          PutsAndRotate(written, deleted) /\ UNCHANGED nonLsmVars
    \/ FlushPop /\ UNCHANGED nonLsmVars
    \/ FlushInstall /\ UNCHANGED nonLsmVars
    \/ CompactPick /\ UNCHANGED nonLsmVars
    \/ CompactBlock /\ UNCHANGED nonLsmVars
    \/ CompactSleep /\ UNCHANGED nonLsmVars
    \/ CompactSpurious /\ UNCHANGED nonLsmVars
    \/ CompactRemove /\ UNCHANGED nonLsmVars
    \/ CompactInstall /\ UNCHANGED nonLsmVars

SpecLSMR == Init /\ [][NextLSMR]_vars

\* every thread that can take a step is eventually scheduled; no put has
\* to arrive and no spurious wake-up has to happen
FairLSMW ==
    /\ \A c \in Clients : WF_vars(RotateSwap(c) /\ UNCHANGED nonLsmVars)
    /\ \A c \in Clients : WF_vars(RotatePush(c) /\ UNCHANGED nonLsmVars)
    /\ WF_vars(FlushPop /\ UNCHANGED nonLsmVars)
    /\ WF_vars(FlushInstall /\ UNCHANGED nonLsmVars)
    /\ WF_vars(CompactPick /\ UNCHANGED nonLsmVars)
    /\ WF_vars(CompactBlock /\ UNCHANGED nonLsmVars)
    /\ WF_vars(CompactSleep /\ UNCHANGED nonLsmVars)
    /\ WF_vars(CompactRemove /\ UNCHANGED nonLsmVars)
    /\ WF_vars(CompactInstall /\ UNCHANGED nonLsmVars)

SpecLSMWFair == SpecLSMW /\ FairLSMW

\* the LSM tree with its destructor: writers, the two workers and ~LSMTree
NextLSMS ==
    \/ \E c \in Clients, k \in LKeys : Put(c, k, nwrites + 1) /\ UNCHANGED nonLsmVars
    \/ \E c \in Clients, k \in LKeys : Put(c, k, TOMBSTONE_VALUE) /\ UNCHANGED nonLsmVars
    \/ \E c \in Clients : RotateSwap(c) /\ UNCHANGED nonLsmVars
    \/ \E c \in Clients : RotatePush(c) /\ UNCHANGED nonLsmVars
    \/ FlushPop /\ UNCHANGED nonLsmVars
    \/ FlushInstall /\ UNCHANGED nonLsmVars
    \/ FlushExit /\ UNCHANGED nonLsmVars
    \/ FlushSpurious /\ UNCHANGED nonLsmVars
    \/ CompactPick /\ UNCHANGED nonLsmVars
    \/ CompactBlock /\ UNCHANGED nonLsmVars
    \/ CompactSleep /\ UNCHANGED nonLsmVars
    \/ CompactSpurious /\ UNCHANGED nonLsmVars
    \/ CompactRemove /\ UNCHANGED nonLsmVars
    \/ CompactInstall /\ UNCHANGED nonLsmVars
    \/ CompactExit /\ UNCHANGED nonLsmVars
    \/ Shutdown /\ UNCHANGED nonLsmVars
    \/ Drain /\ UNCHANGED nonLsmVars

SpecLSMS == Init /\ [][NextLSMS]_vars

\* every thread that can take a step eventually does; a blocked wait is
\* not promised a spurious wake-up, and nobody is obliged to write or to
\* destroy the tree
FairLSMS ==
    /\ \A c \in Clients : WF_vars(RotateSwap(c) /\ UNCHANGED nonLsmVars)
    /\ \A c \in Clients : WF_vars(RotatePush(c) /\ UNCHANGED nonLsmVars)
    /\ WF_vars(FlushPop /\ UNCHANGED nonLsmVars)
    /\ WF_vars(FlushInstall /\ UNCHANGED nonLsmVars)
    /\ WF_vars(FlushExit /\ UNCHANGED nonLsmVars)
    /\ WF_vars(CompactPick /\ UNCHANGED nonLsmVars)
    /\ WF_vars(CompactBlock /\ UNCHANGED nonLsmVars)
    /\ WF_vars(CompactSleep /\ UNCHANGED nonLsmVars)
    /\ WF_vars(CompactRemove /\ UNCHANGED nonLsmVars)
    /\ WF_vars(CompactInstall /\ UNCHANGED nonLsmVars)
    /\ WF_vars(CompactExit /\ UNCHANGED nonLsmVars)
    /\ WF_vars(Drain /\ UNCHANGED nonLsmVars)

SpecLSMSFair == SpecLSMS /\ FairLSMS

\* the Bloom filter under any hash function and any sequence of calls
NextBloom ==
    \/ \E h \in [Words -> Words] : ChooseHash(h) /\ UNCHANGED nonBloomVars
    \/ \E k \in Words : DoInsert(k) /\ UNCHANGED nonBloomVars
    \/ \E k \in Words : DoQuery(k) /\ UNCHANGED nonBloomVars

SpecBloom == Init /\ [][NextBloom]_vars

\* one SSTable built from any memtable under any hash function, and the
\* find_key calls on it
NextSST ==
    \/ \E h \in [Words -> Words] :
          /\ ChooseHash(h)
          /\ UNCHANGED nonBloomVars
    \/ \E m \in SstMemtables : SstCreate(m, 0) /\ UNCHANGED nonSSTableVars
    \/ \E k \in Words : SstFind(k) /\ UNCHANGED nonSSTableVars

SpecSST == Init /\ [][NextSST]_vars

\* the SkipListMemtable used by one thread
NextSkip ==
    \/ \E k \in SlKeys, v \in SlValues : DoPut(k, v) /\ UNCHANGED nonSkipVars
    \/ \E k \in SlKeys : DoGet(k) /\ UNCHANGED nonSkipVars
    \/ \E k \in SlKeys : DoDelete(k) /\ UNCHANGED nonSkipVars
    \/ \E kvs \in Batches : DoPutBatch(kvs) /\ UNCHANGED nonSkipVars
    \/ DoIterate /\ UNCHANGED nonSkipVars
    \/ DoValidate /\ UNCHANGED nonSkipVars
    \/ DoClear /\ UNCHANGED nonSkipVars

SpecSkip == Init /\ [][NextSkip]_vars

\* the SkipListMemtable with NumThreads threads that put distinct new keys
NextSkipC ==
    \/ \E t \in Threads, k \in SlKeys, v \in SlValues, level \in 1..MAX_LEVEL :
          PutFind(t, k, v, level) /\ UNCHANGED nonSkipListVars
    \/ \E t \in Threads : PutLoad(t) /\ UNCHANGED nonSkipListVars
    \/ \E t \in Threads : PutStore(t) /\ UNCHANGED nonSkipListVars
    \/ \E t \in Threads : PutCount(t) /\ UNCHANGED nonSkipListVars

SpecSkipC == Init /\ [][NextSkipC]_vars

\* the CustomSkipListMemtable with NumThreads client threads
NextCustom ==
    \/ \E t \in Threads, op \in {"put", "update"}, k \in SlKeys, v \in SlValues :
          CustomCall(t, op, k, v, <<>>) /\ UNCHANGED nonCustomVars
    \/ \E t \in Threads, kvs \in Batches :
          CustomCall(t, "putBatch", <<>>, <<>>, kvs) /\ UNCHANGED nonCustomVars
    \/ \E t \in Threads, k \in SlKeys :
          CustomCall(t, "get", k, <<>>, <<>>) /\ UNCHANGED nonCustomVars
    \/ \E t \in Threads : UniqueLock(t) /\ UNCHANGED nonCustomVars
    \/ \E t \in Threads : SharedLock(t) /\ UNCHANGED nonCustomVars
    \/ \E t \in Threads : CustomGetReturn(t) /\ UNCHANGED nonCustomVars
    \/ \E t \in Threads, outcome \in LockSharedOwned :
          NestedGet(t, outcome) /\ UNCHANGED nonCustomVars
    \/ \E t \in Threads : PutBatchReturn(t) /\ UNCHANGED nonCustomVars

SpecCustom == Init /\ [][NextCustom]_vars

(***************************************************************************)
(* Claims: LSM tree                                                        *)
(***************************************************************************)
\* C1: point consistency of the LSM tree.  A get(k) that began after the
\* last put(k, v) returned, with no write of k since, on a key that was
\* never deleted, returns v -- in every interleaving with rotation, the
\* flush worker and the compaction worker.
C1_PointConsistency ==
    \A r \in Readers :
        (/\ rdr[r].pc = "ret"
         /\ rdr[r].clean
         /\ hist[rdr[r].key].n > 0
         /\ ~hist[rdr[r].key].deleted)
        => (rdr[r].found /\ rdr[r].outValue = hist[rdr[r].key].val)

\* every memtable is in the active slot, on the queue or flushed: no
\* writer is inside put and the flush worker holds no memtable
Settled == (\A c \in Clients : cli[c].pc = "idle") /\ flusher.pc = "wait"

\* the newest L0 SSTable that stores key stores a tombstone for it
TombstoneNewestInL0(key) ==
    \E i \in 1..Len(levels_[1]) :
        /\ levels_[1][i].data[key] = TOMBSTONE_VALUE
        /\ \A j \in (i + 1)..Len(levels_[1]) : levels_[1][j].data[key] = NoEntry

\* no memtable, active or queued, has an entry for key
NotInMemtables(key) ==
    /\ active_memtable_ = <<>> \/ active_memtable_[1][key] = NoEntry
    /\ \A i \in 1..Len(immutable_memtables_) : immutable_memtables_[i][key] = NoEntry

\* C2: delete hides older writes.  When the last write of k is a delete
\* and the tombstone has been flushed, so that the newest L0 SSTable that
\* stores k stores the tombstone, get(k) returns not-found: it does not
\* fall through to an older SSTable or a deeper level.
C2_DeleteHides ==
    \A k \in LKeys :
        (/\ Settled
         /\ hist[k].val = TOMBSTONE_VALUE
         /\ NotInMemtables(k)
         /\ TombstoneNewestInL0(k))
        => ~GetNow(k).found

\* C6: last-writer-wins for one client thread.  After an earlier write of
\* k and a later put(k, v2) by the same (only) thread, that thread's next
\* get(k) returns v2, whatever rotations, flushes and compactions happen.
C6_LastWriterWins ==
    \A r \in Readers :
        (/\ rdr[r].pc = "ret"
         /\ rdr[r].clean /\ rdr[r].quiet
         /\ Cardinality(authors) = 1
         /\ hist[rdr[r].key].n >= 2
         /\ hist[rdr[r].key].val # TOMBSTONE_VALUE)
        => (rdr[r].found /\ rdr[r].outValue = hist[rdr[r].key].val)

\* a get that runs, with no other thread taking a step, once the commit
\* in progress has installed its outputs
GetAfterInstall(key) ==
    LET a == getActive(active_memtable_, key)
        b == getImmutable(immutable_memtables_, Len(immutable_memtables_), key)
        c == getLevels(install_outputs(levels_, compactor.pick.source_level_idx + 1,
                                       compactor.new_ssts_for_target), key)
    IN IF a.ret THEN a ELSE IF b.ret THEN b ELSE c

\* C7: invariance across compaction.  The commit of a compaction (which
\* writes and deletes no key) leaves the result of get(k) unchanged for
\* every key k: get(k) just before the commit takes the levels lock equals
\* get(k) on the levels the commit installs.
C7_CompactionInvariance ==
    [][(compactor.pc = "compact" /\ compactor'.pc = "install")
        => \A k \in LKeys : GetAfterInstall(k)' = GetNow(k)]_vars

(***************************************************************************)
(* Claims: B+ tree                                                         *)
(***************************************************************************)
\* BPlusTree::get_tree_depth
RECURSIVE get_tree_depth(_, _)
get_tree_depth(ns, nodeOffset) ==
    IF nodeOffset = SIZE_MAX THEN 0
    ELSE LET node == NodeAt(ns, nodeOffset) IN
         IF node.type = "Leaf" THEN 1
         ELSE SetMax({get_tree_depth(ns, node.childIndices[i]) :
                         i \in 0..node.numKeys} \cup {0}) + 1

\* what a map holding the last put of every key answers for k
MapGet(k) ==
    IF lastPut[k] = 0 THEN NotFound ELSE [found |-> TRUE, value |-> lastPut[k]]

StoredKeys == {k \in Keys : lastPut[k] # 0}

NodeOffsets == 0..(Len(nodes_) - 1)

\* C3: B+ tree map equivalence, single thread.  After any sequence of puts
\* get(k) returns the value of the last put of k for every key that was
\* put and not-found for every key never put, and this is what a get that
\* the client called has returned.
C3_MapEquivalence ==
    /\ \A k \in Keys : get(nodes_, rootIndex_, k) = MapGet(k)
    /\ btOut.op = "get"
       => [found |-> btOut.found, value |-> btOut.value] = MapGet(btOut.key)

\* a get has found a key in a tree of depth 3 (leaf, internal and root
\* splits have happened) that stores every key
C3_Witness ==
    /\ btOut.op = "get" /\ btOut.found /\ btOut.value = MaxVal
    /\ get_tree_depth(nodes_, rootIndex_) >= 3
    /\ StoredKeys = Keys

\* C4: B+ tree point consistency under concurrent writers.  A get(k) that
\* begins after put(k, v) has returned returns v while other threads are
\* inserting.
C4_PointConsistency ==
    \A t \in Threads :
        (thr[t].pc = "got" /\ thr[t].expect # 0)
        => (thr[t].found /\ thr[t].outValue = thr[t].expect)

\* C5: B+ tree serial equivalence.  Once all concurrent puts have returned
\* every put key is retrievable by get with the value that was written.
C5_SerialEquivalence ==
    (\A t \in Threads : thr[t].pc = "idle")
    => \A k \in Keys : get(nodes_, rootIndex_, k) = MapGet(k)

\* the leaf reached from nodeOffset through childIndices[0]
RECURSIVE Leftmost(_, _)
Leftmost(ns, nodeOffset) ==
    IF nodeOffset = SIZE_MAX THEN SIZE_MAX
    ELSE LET node == NodeAt(ns, nodeOffset) IN
         IF node.type = "Leaf" THEN nodeOffset
         ELSE Leftmost(ns, node.childIndices[0])

\* the keys along the nextLeaf chain from leafOff, at most fuel leaves
RECURSIVE ChainKeys(_, _, _)
ChainKeys(ns, leafOff, fuel) ==
    IF leafOff = SIZE_MAX \/ fuel = 0 THEN <<>>
    ELSE LET leaf == NodeAt(ns, leafOff) IN
         [i \in 1..leaf.numKeys |-> leaf.keys[i - 1]]
            \o ChainKeys(ns, leaf.nextLeaf, fuel - 1)

\* the keys stored in the leaves below nodeOffset
RECURSIVE SubtreeKeys(_, _)
SubtreeKeys(ns, nodeOffset) ==
    IF nodeOffset = SIZE_MAX THEN {}
    ELSE LET node == NodeAt(ns, nodeOffset) IN
         IF node.type = "Leaf" THEN {node.keys[i] : i \in 0..(node.numKeys - 1)}
         ELSE UNION {SubtreeKeys(ns, node.childIndices[i]) : i \in 0..node.numKeys}

\* C8: B+ tree ordering invariant.  After any single-threaded sequence of
\* puts the leaf chain from the leftmost leaf yields every stored key
\* exactly once in strictly increasing order, and for every internal node
\* the keys below children[i] are < keys[i] and the keys below
\* children[i+1] are >= keys[i].
C8_Ordering ==
    LET chain == ChainKeys(nodes_, Leftmost(nodes_, rootIndex_), Len(nodes_) + 1) IN
    /\ \A i \in 1..(Len(chain) - 1) : chain[i] < chain[i + 1]
    /\ {chain[i] : i \in 1..Len(chain)} = StoredKeys
    /\ \A off \in NodeOffsets :
          LET node == NodeAt(nodes_, off) IN
          node.type = "Internal"
          => \A i \in 0..(node.numKeys - 1) :
                /\ \A k \in SubtreeKeys(nodes_, node.childIndices[i]) : k < node.keys[i]
                /\ \A k \in SubtreeKeys(nodes_, node.childIndices[i + 1]) :
                      k >= node.keys[i]

\* every key is stored, in a tree of depth 3: the chain links the leaves
\* of two internal nodes below the root
C8_Witness ==
    /\ StoredKeys = Keys
    /\ get_tree_depth(nodes_, rootIndex_) >= 3
    /\ NodeAt(nodes_, Leftmost(nodes_, rootIndex_)).nextLeaf # SIZE_MAX

\* C9: B+ tree fan-out bound.  After every put each leaf holds at most
\* MAX_KEYS_LEAF keys and each internal node holds at most
\* MAX_KEYS_INTERNAL keys with exactly numKeys + 1 child references, each
\* of them a node of the tree and no two of them the same.
C9_FanOut ==
    \A off \in NodeOffsets :
        LET node == NodeAt(nodes_, off) IN
        IF node.type = "Leaf"
        THEN /\ node.numKeys <= MAX_KEYS_LEAF
             /\ DOMAIN node.keys = 0..(node.numKeys - 1)
             /\ DOMAIN node.values = 0..(node.numKeys - 1)
        ELSE /\ node.numKeys <= MAX_KEYS_INTERNAL
             /\ DOMAIN node.keys = 0..(node.numKeys - 1)
             /\ DOMAIN node.childIndices = 0..node.numKeys
             /\ \A i \in 0..node.numKeys :
                   /\ node.childIndices[i] # SIZE_MAX
                   /\ node.childIndices[i] \in NodeOffsets
                   /\ \A j \in 0..node.numKeys :
                         node.childIndices[i] = node.childIndices[j] => i = j

\* a full leaf in a tree of depth 3: leaves, an internal node and the root
\* have split
C9_Witness ==
    /\ get_tree_depth(nodes_, rootIndex_) >= 3
    /\ \E off \in NodeOffsets :
          NodeAt(nodes_, off).type = "Leaf" /\ NodeAt(nodes_, off).numKeys = MAX_KEYS_LEAF
    /\ \E off \in NodeOffsets :
          NodeAt(nodes_, off).type = "Internal" /\ off # rootIndex_

\* the first max_results stored pairs with k <= key <= high, ascending
RECURSIVE ExpectedRange(_, _, _)
ExpectedRange(k, high, max_results) ==
    IF k > high \/ k > MaxKey \/ max_results = 0 THEN <<>>
    ELSE IF lastPut[k] # 0
    THEN <<<<k, lastPut[k]>>>> \o ExpectedRange(k + 1, high, max_results - 1)
    ELSE ExpectedRange(k + 1, high, max_results)

\* C10: B+ tree range completeness.  With no concurrent writer
\* rangeQuery(lo, hi, max_results) returns in ascending key order exactly
\* the first min(max_results, n) of the n stored pairs with lo <= k <= hi,
\* each with its current value; the result is empty when lo > hi or
\* max_results = 0.
C10_RangeCompleteness ==
    btOut.op = "range"
    => /\ btOut.out = ExpectedRange(btOut.low, btOut.high, btOut.max_results)
       /\ (btOut.low > btOut.high \/ btOut.max_results = 0) => btOut.out = <<>>

\* a result truncated to max_results whose pairs come from two leaves,
\* starting above the smallest stored key
C10_Witness ==
    /\ btOut.op = "range"
    /\ Len(btOut.out) = btOut.max_results /\ btOut.max_results >= 2
    /\ \E k \in StoredKeys : k < btOut.low
    /\ \E k \in StoredKeys : k <= btOut.high /\ k > btOut.out[Len(btOut.out)][1]
    /\ findLeafForKey(nodes_, rootIndex_, btOut.out[1][1])
          # findLeafForKey(nodes_, rootIndex_, btOut.out[Len(btOut.out)][1])

(***************************************************************************)
(* Claims: LSM tree workers                                                *)
(***************************************************************************)
\* C11: LSM compaction liveness.  Whenever L0 holds more than
\* max_level0_sstables_ SSTables and the writes stop, the compaction worker
\* eventually runs and L0 holds at most max_level0_sstables_ SSTables,
\* whatever the timing of the flush worker's signal.
C11_CompactionLiveness ==
    (Len(levels_[1]) > max_level0_sstables_)
        ~> (Len(levels_[1]) <= max_level0_sstables_)

\* C12: LSM level shape.  In every reachable state each level i >= 1 is
\* ordered by min_key ascending and the key ranges [min_key, max_key] of
\* any two SSTables of the level are disjoint.
C12_LevelShape ==
    \A lvl \in 2..max_levels_ :
        \A i \in 1..Len(levels_[lvl]), j \in 1..Len(levels_[lvl]) :
            i < j => /\ levels_[lvl][i].min_key <= levels_[lvl][j].min_key
                     /\ levels_[lvl][i].max_key < levels_[lvl][j].min_key

\* C13: the compaction commit is atomic for readers.  A get never scans
\* the levels between the removal of a compaction's inputs and the
\* installation of its outputs, and what its scan of L0..Ln returns is what
\* the levels held for the key when it took the levels lock.
C13_AtomicCommit ==
    \A r \in Readers :
        /\ rdr[r].pc = "deep" => compactor.pc # "install"
        /\ (rdr[r].pc = "ret" /\ rdr[r].snap.taken)
           => (rdr[r].found = rdr[r].snap.found /\ rdr[r].outValue = rdr[r].snap.value)

\* a get of a key has passed the memtables and is about to scan the levels
\* while the commit of a compaction has removed the only SSTables that
\* store the key and has not yet installed the one that will
C13_Witness ==
    \E r \in Readers :
        /\ rdr[r].pc = "lvl"
        /\ compactor.pc = "install"
        /\ ~getLevels(levels_, rdr[r].key).found
        /\ \E i \in 1..Len(compactor.new_ssts_for_target) :
              find_key(compactor.new_ssts_for_target[i], rdr[r].key).found

SingleWriter == Cardinality(authors) <= 1

\* the memtables that have left the active slot
Rotated ==
    {immutable_memtables_[i] : i \in 1..Len(immutable_memtables_)}
        \cup {flusher.memtable_to_flush[i] : i \in 1..Len(flusher.memtable_to_flush)}
        \cup UNION {{cli[c].old_active_to_flush[i] :
                        i \in 1..Len(cli[c].old_active_to_flush)} : c \in Clients}

\* C14: rotation and flush accounting with a single writer and threshold
\* T = memtable_max_size_entries_.  After each put returns the active
\* memtable holds fewer than T entries, every rotated memtable holds T,
\* and a put's entry is in the active memtable; a rotation takes a
\* memtable of T entries and leaves an empty active one; a flush adds to L0
\* exactly one SSTable, with the next id, whose entries are the memtable's
\* (tombstones included), entry_count = T, and min_key / max_key its
\* smallest / largest key.
C14_RotationAccounting ==
    /\ [](SingleWriter =>
            /\ (\A c \in Clients : cli[c].pc = "idle")
               => (active_memtable_ # <<>>
                   /\ MtSize(active_memtable_[1]) < memtable_max_size_entries_)
            /\ \A m \in Rotated : MtSize(m) = memtable_max_size_entries_)
    /\ [][SingleWriter' =>
            /\ \A k \in LKeys :
                  hist'[k] # hist[k] => active_memtable_'[1][k] = hist'[k].val
            /\ \A c \in Clients :
                  (cli[c].pc = "swap" /\ cli'[c].pc = "push")
                  => /\ MtSize(active_memtable_[1]) = memtable_max_size_entries_
                     /\ cli'[c].old_active_to_flush = active_memtable_
                     /\ active_memtable_' = <<EmptyMemTable>>
            /\ (flusher.pc = "flush" /\ flusher'.pc = "wait")
               => LET m == flusher.memtable_to_flush[1]
                      isNew(sst) == sst.id = next_sstable_id_
                      isOld(sst) == sst.id # next_sstable_id_
                      new == SelectSeq(levels_'[1], isNew)
                  IN /\ SelectSeq(levels_'[1], isOld) = levels_[1]
                     /\ Len(new) = 1
                     /\ new[1].data = m
                     /\ new[1].entry_count = memtable_max_size_entries_
                     /\ new[1].min_key = SetMin(MtKeys(m))
                     /\ new[1].max_key = SetMax(MtKeys(m))
                     /\ \A i \in 2..max_levels_ : levels_'[i] = levels_[i]
       ]_vars

\* a single writer has rotated a memtable that holds a tombstone, the flush
\* worker has installed it in L0, and a later put is in the new active
\* memtable
C14_Witness ==
    /\ Cardinality(authors) = 1
    /\ \A c \in Clients : cli[c].pc = "idle"
    /\ flusher.pc = "wait"
    /\ Len(levels_[1]) = 1
    /\ \E k \in LKeys : levels_[1][1].data[k] = TOMBSTONE_VALUE
    /\ levels_[1][1].min_key < levels_[1][1].max_key
    /\ MtSize(active_memtable_[1]) = 1

\* C15: shutdown drains without loss.  When ~LSMTree has returned, the
\* immutable queue is empty and there is no active memtable; every memtable
\* the final flush found in the queue, and the active memtable if it held
\* an entry, is the data of one L0 SSTable; these SSTables have
\* consecutive ids in queue order, the one built from the active memtable
\* the highest; and the final flush has run no compaction: the SSTables
\* that were in L0 are still there and the deeper levels are unchanged, also
\* when L0 holds more than max_level0_sstables_ SSTables.
C15_ShutdownDrains ==
    closer.pc = "done" =>
        LET all == final_queue(closer.queued, closer.active)
            isOld(sst) == sst.id < closer.first_id
            isNew(sst) == sst.id >= closer.first_id
            new == SelectSeq(levels_[1], isNew)
        IN /\ immutable_memtables_ = <<>>
           /\ active_memtable_ = <<>>
           /\ SelectSeq(levels_[1], isOld) = closer.levels[1]
           /\ \A i \in 2..max_levels_ : levels_[i] = closer.levels[i]
           /\ Len(new) = Len(all)
           /\ \A i \in 1..Len(all) :
                 /\ new[i].data = all[i]
                 /\ new[i].id = closer.first_id + i - 1
           /\ (closer.active # <<>> /\ ~MtEmpty(closer.active[1]))
              => /\ new[Len(new)].data = closer.active[1]
                 /\ \A i \in 1..(Len(new) - 1) : new[i].id < new[Len(new)].id

\* ~LSMTree has returned after a final flush of a queued memtable and of an
\* active memtable that held a tombstone, and L0 is left with more than
\* max_level0_sstables_ SSTables
C15_Witness ==
    /\ closer.pc = "done"
    /\ Len(closer.queued) >= 1
    /\ \E k \in LKeys : closer.active[1][k] = TOMBSTONE_VALUE
    /\ closer.active # closer.queued
    /\ Len(levels_[1]) > max_level0_sstables_

(***************************************************************************)
(* Claims: Bloom filter                                                    *)
(***************************************************************************)
\* C16: the Bloom filter has no false negatives.  Under any hash function,
\* after any sequence of Insert calls Query(k) is true for every key k that
\* was inserted, a Query call of an inserted key has returned true, and no
\* call clears a bit that is set.
C16_NoFalseNegatives ==
    /\ [](stdhash # NoHash => \A k \in inserted : Query(blocks_, k))
    /\ [][/\ \A i \in 1..num_blocks_ : BitAnd(blocks_[i], blocks_'[i]) = blocks_[i]
          /\ (bloomOut' # bloomOut /\ bloomOut'.key \in inserted) => bloomOut'.result
         ]_vars

\* two inserted keys share a block and set different bits in it, Query has
\* returned true for an inserted key, and some key that was not inserted is
\* reported absent
C16_Witness ==
    /\ stdhash # NoHash
    /\ \E k1 \in inserted, k2 \in inserted :
          /\ GetBlock(stdhash[k1]) = GetBlock(stdhash[k2])
          /\ ConstructMask(stdhash[k1]) # ConstructMask(stdhash[k2])
    /\ bloomOut.key \in inserted
    /\ bloomOut.result
    /\ \E k \in Words \ inserted : ~Query(blocks_, k)

(***************************************************************************)
(* Claims: SkipListMemtable                                                *)
(***************************************************************************)
\* the accounted size of a new entry fits under max_size_
FitsNew(key, value) ==
    memory_usage_ + sizeof_SkipListNode + Len(key) + Len(value) <= max_size_

C18_Delete ==
    /\ [](\A k \in SlKeys : slHist[k].deleted => ~sl_get(heap, k).ret)
    /\ [][slOut'.op = "delete_key" =>
            LET k == slOut'.key
            IN /\ slHist[k].put => (slOut'.ret /\ ~sl_get(heap', k).ret)
               /\ ~slHist[k].put => (~slOut'.ret /\ heap' = heap)
               /\ \A k2 \in SlKeys \ {k} : sl_get(heap', k2) = sl_get(heap, k2)
               /\ Len(heap') = Len(heap)
               /\ size_' = size_
               /\ memory_usage_' = memory_usage_
       ]_vars
    /\ [][(slOut'.op = "put" /\ slHist[slOut'.key].deleted)
            => /\ slOut'.ret
               /\ sl_get(heap', slOut'.key) =
                     [ret |-> TRUE, value |-> slHist'[slOut'.key].val]
       ]_vars

\* delete_key of a stored key has just returned true while another key,
\* stored behind it in the list, keeps its value
C18_Witness ==
    /\ slOut.op = "delete_key"
    /\ slOut.ret
    /\ slHist[slOut.key].deleted
    /\ \E k2 \in SlKeys :
          /\ StrLess(slOut.key, k2)
          /\ slHist[k2].put /\ ~slHist[k2].deleted /\ slHist[k2].val # <<>>
          /\ sl_get(heap, k2).ret

RECURSIVE NewBytes(_, _)
NewBytes(kvs, idx) ==
    IF idx > Len(kvs) THEN 0
    ELSE (IF findNode(heap, kvs[idx].key).node = nullptr
             /\ \A j \in 1..(idx - 1) : kvs[j].key # kvs[idx].key
          THEN sizeof_SkipListNode + Len(kvs[idx].key) + Len(kvs[idx].value)
          ELSE 0) + NewBytes(kvs, idx + 1)

BatchFits(kvs) == memory_usage_ + NewBytes(kvs, 1) <= max_size_

\* the value the batch gives to the key of its entry i: that of the last
\* entry with this key
BatchValue(kvs, i) ==
    kvs[CHOOSE j \in 1..Len(kvs) :
           /\ kvs[j].key = kvs[i].key
           /\ \A l \in (j + 1)..Len(kvs) : kvs[l].key # kvs[i].key].value

\* C20: putBatch.  A putBatch whose new entries fit in the remaining
\* capacity completes and returns true, and get then returns the batch's
\* value for every key of the batch; one whose new entries do not fit
\* returns false and inserts none of them; every call of putBatch
\* completes.
C20_PutBatch ==
    /\ [](\A kvs \in Batches : \A r \in sl_putBatch(Memtable, kvs) :
            /\ BatchFits(kvs)
               => /\ r.how = "returned"
                  /\ r.ret
                  /\ \A i \in 1..Len(kvs) :
                        sl_get(r.m.heap, kvs[i].key) =
                            [ret |-> TRUE, value |-> BatchValue(kvs, i)]
            /\ ~BatchFits(kvs)
               => (r.how = "returned" /\ ~r.ret /\ r.m = Memtable))
    /\ [][slOut'.op = "putBatch" => slOut'.how = "returned"]_vars

\* the keys that are stored and not deleted, by the history
LiveKeys == {k \in SlKeys : slHist[k].put /\ ~slHist[k].deleted}

\* visited holds every live entry once, in ascending key order, with its
\* value, and nothing else
VisitsLive(visited) ==
    /\ {visited[i].key : i \in 1..Len(visited)} = LiveKeys
    /\ \A i \in 1..Len(visited), j \in 1..Len(visited) :
          i < j => StrLess(visited[i].key, visited[j].key)
    /\ \A i \in 1..Len(visited) :
          /\ ~visited[i].is_deleted
          /\ visited[i].value = slHist[visited[i].key].val

\* C21: iteration.  A loop from begin() until the iterator equals end()
\* terminates and visits every entry that is not deleted exactly once, in
\* ascending key order, and no deleted entry.
C21_Iteration ==
    /\ [](LET r == Iterate(heap, sl_begin(heap), Len(heap), <<>>)
          IN r.terminated /\ VisitsLive(r.visited))
    /\ [][slOut'.op = "iterate" => (slOut'.ret /\ VisitsLive(slOut'.visited))]_vars

\* an iteration has visited two entries of a list of three whose first
\* node is deleted
C21_Witness ==
    /\ slOut.op = "iterate"
    /\ Len(slOut.visited) = 2
    /\ size_ = 3
    /\ heap[heap[head_].next[1]].is_deleted

\* the chain of level i from node n reaches tail_ without a null pointer,
\* within fuel steps
RECURSIVE ChainReachesTail(_, _, _, _)
ChainReachesTail(h, n, i, fuel) ==
    IF n = tail_ THEN TRUE
    ELSE IF n = nullptr \/ fuel = 0 THEN FALSE
    ELSE ChainReachesTail(h, h[n].next[i + 1], i, fuel - 1)

\* C23: structural validity.  In every state reached from the empty
\* memtable by put, delete_key and clear, validate() returns true, and at
\* every level the chain that starts at head_ reaches tail_ without meeting
\* a null next pointer.
C23_Validate ==
    /\ [](/\ validate(heap)
          /\ \A i \in 0..(MAX_LEVEL - 1) : ChainReachesTail(heap, head_, i, Len(heap)))
    /\ [][slOut'.op = "validate" => slOut'.ret]_vars

\* validate() has returned true on a list of three nodes, one of them
\* linked at every level and one at the bottom level only, one deleted
C23_Witness ==
    /\ slOut.op = "validate"
    /\ slOut.ret
    /\ Len(heap) = 5
    /\ \E i \in 3..5 : heap[i].level = MAX_LEVEL
    /\ \E i \in 3..5 : heap[i].level = 1
    /\ \E i \in 3..5 : heap[i].is_deleted

(***************************************************************************)
(* C22  SkipListMemtable, concurrent puts: once every thread has finished, *)
(* every put of a distinct new key that returned true is retrievable by    *)
(* get with its value, size() is the number of those puts, and the         *)
(* bottom-level list is sorted and holds every node exactly once.          *)
(***************************************************************************)
\* the nodes of the level-0 list after n, in list order
RECURSIVE BottomChain(_, _, _)
BottomChain(h, n, fuel) ==
    LET next == h[n].next[1]
    IN IF next = tail_ \/ next = nullptr \/ fuel = 0 THEN <<>>
       ELSE <<next>> \o BottomChain(h, next, fuel - 1)

AllDone == UNION {slThr[t].done : t \in Threads}

C22_ConcurrentPuts ==
    (\A t \in Threads : slThr[t].pc = "idle") =>
        LET chain == BottomChain(heap, head_, Len(heap))
        IN /\ \A kv \in AllDone :
                 sl_get(heap, kv.key) = [ret |-> TRUE, value |-> kv.value]
           /\ size_ = Cardinality(AllDone)
           /\ \A a, b \in 1..Len(chain) :
                 a < b => StrLess(heap[chain[a]].key, heap[chain[b]].key)
           /\ {chain[a] : a \in 1..Len(chain)} = 3..Len(heap)
           /\ Len(chain) = Len(heap) - 2
(***************************************************************************)
(* C24  B+ tree lock discipline: during the descent of get and put a       *)
(* thread holds at most one node lock at a time; the parent's lock is      *)
(* released once the child is selected; put holds an exclusive lock only   *)
(* on the node it mutates.                                                 *)
(***************************************************************************)
Descending(t) == thr[t].pc \in {"insertInternal", "searchKey", "insertLeaf", "found"}

C24_LockDiscipline ==
    \A t \in Threads :
        /\ Descending(t) => Len(locked[t]) <= 1
        /\ thr[t].pc \in {"insertInternal", "searchKey"} => locked[t] = <<>>
        /\ thr[t].pc = "insertLeaf" =>
               \A j \in 1..Len(locked[t]) : locked[t][j].node = thr[t].nodeOffset
(***************************************************************************)
(* C25  B+ tree arena growth: every growth of nodes_ (the new leaf of a    *)
(* leaf split, the new node of an internal split, a new root) happens      *)
(* while the growing thread holds tree_mutex exclusively, and no other     *)
(* thread is at a point of get or put that indexes nodes_ while it grows.  *)
(***************************************************************************)
\* thread u is inside searchKey / insertInternal: its next statement
\* evaluates nodes_[...]
Indexing(u) == thr[u].pc \in {"insertInternal", "searchKey", "insertLeaf", "return"}

Grower == CHOOSE t \in Threads : thr'[t] # thr[t]

C25_ArenaGrowth ==
    [][Len(nodes_') > Len(nodes_) =>
          /\ tree_mutex = Grower
          /\ \A u \in Threads \ {Grower} : ~Indexing(u)]_vars
(***************************************************************************)
(* C26  LSM compaction merge: for every key of the inputs the output of    *)
(* compact_sstables holds the newest version only: a version of the source *)
(* level beats every version of the target level, among the SSTables of a  *)
(* level-0 source the one with the highest id wins, and a key whose newest *)
(* version is a tombstone is absent from the output.                       *)
(***************************************************************************)
Holding(ssts, k) == {i \in 1..Len(ssts) : ssts[i].data[k] # NoEntry}

\* the versions of k that may win the merge of the picked inputs
Newest(p, k) ==
    LET S == Holding(p.ssts_from_source, k)
        T == Holding(p.ssts_from_target_overlap, k)
    IN IF S # {}
       THEN IF p.source_level_idx = 0
            THEN {p.ssts_from_source[i].data[k] :
                    i \in {j \in S : \A l \in S : p.ssts_from_source[l].id
                                                     <= p.ssts_from_source[j].id}}
            ELSE {p.ssts_from_source[i].data[k] : i \in S}
       ELSE {p.ssts_from_target_overlap[i].data[k] : i \in T}

C26_MergeNewestWins ==
    compactor.pc = "install" =>
        \A k \in LKeys :
            LET out == compactor.new_ssts_for_target
                O == Holding(out, k)
                N == Newest(compactor.pick, k)
            IN IF N = {} THEN O = {}
               ELSE \E v \in N :
                      IF v = TOMBSTONE_VALUE THEN O = {}
                      ELSE Cardinality(O) = 1 /\ \A i \in O : out[i].data[k] = v

\* a compaction from level 0 has merged a key that the source and the
\* target both hold, in different versions, and a key whose tombstone in
\* the source covers a version in the target
C26_Witness ==
    /\ compactor.pc = "install"
    /\ compactor.pick.source_level_idx = 0
    /\ \E k \in LKeys :
          /\ Holding(compactor.pick.ssts_from_source, k) # {}
          /\ Holding(compactor.pick.ssts_from_target_overlap, k) # {}
          /\ Holding(compactor.new_ssts_for_target, k) # {}
    /\ \E k \in LKeys :
          /\ Newest(compactor.pick, k) = {TOMBSTONE_VALUE}
          /\ Holding(compactor.pick.ssts_from_target_overlap, k) # {}

\* a compaction from level 0 has merged two source SSTables that hold the
\* same key
C26_TwoSources ==
    /\ compactor.pc = "install"
    /\ compactor.pick.source_level_idx = 0
    /\ \E k \in LKeys : Cardinality(Holding(compactor.pick.ssts_from_source, k)) = 2
(***************************************************************************)
(* C27  LSM compaction commit: the commit of a compaction removes from     *)
(* levels_ exactly the SSTables it took as inputs: none of them remains in *)
(* any level, no other SSTable is removed, and an SSTable flushed into     *)
(* level 0 after the inputs were picked is still in level 0 afterwards.    *)
(***************************************************************************)
SSTablesOf(level) == {level[i] : i \in 1..Len(level)}

InputIds(p) ==
    {p.ssts_from_source[i].id : i \in 1..Len(p.ssts_from_source)}
        \cup {p.ssts_from_target_overlap[i].id :
                 i \in 1..Len(p.ssts_from_target_overlap)}

C27_CommitRemovesInputs ==
    /\ [](compactor.pc = "install" =>
             \A l \in 1..max_levels_ : \A sst \in SSTablesOf(levels_[l]) :
                 sst.id \notin InputIds(compactor.pick))
    /\ [][/\ (compactor.pc = "compact" /\ compactor'.pc = "install") =>
               \A l \in 1..max_levels_ :
                   SSTablesOf(levels_'[l]) =
                       {sst \in SSTablesOf(levels_[l]) :
                           sst.id \notin InputIds(compactor.pick)}
          /\ (compactor.pc = "install" /\ compactor'.pc # "install") =>
               \A l \in 1..max_levels_ :
                   /\ SSTablesOf(levels_[l]) \subseteq SSTablesOf(levels_'[l])
                   /\ SSTablesOf(levels_'[l]) \ SSTablesOf(levels_[l]) \subseteq
                          IF l = compactor.pick.source_level_idx + 2
                          THEN SSTablesOf(compactor.new_ssts_for_target) ELSE {}]_vars

\* the inputs of a compaction from level 0, all of level 0 when they were
\* picked, have been removed, and level 0 holds an SSTable: one flushed
\* after the inputs were picked
C27_Witness ==
    /\ compactor.pc = "install"
    /\ compactor.pick.source_level_idx = 0
    /\ Len(levels_[1]) > 0
(***************************************************************************)
(* C28  LSM rotation under racing writers: each full memtable is appended  *)
(* to the immutable queue exactly once, by the writer that swapped it out; *)
(* a writer that finds the threshold no longer met enqueues nothing; no    *)
(* memtable with fewer than memtable_max_size_entries_ entries is          *)
(* enqueued; the swap moves every entry of the old memtable.               *)
(***************************************************************************)
C28_RacingRotation ==
    /\ [](\A m \in Rotated : MtSize(m) >= memtable_max_size_entries_)
    /\ [][/\ \A c \in Clients :
               /\ (cli[c].pc = "swap" /\ cli'[c].pc = "push") =>
                     /\ MtSize(active_memtable_[1]) >= memtable_max_size_entries_
                     /\ cli'[c].old_active_to_flush = active_memtable_
                     /\ active_memtable_' = <<EmptyMemTable>>
                     /\ immutable_memtables_' = immutable_memtables_
                     /\ \A d \in Clients \ {c} : cli'[d] = cli[d]
               /\ (cli[c].pc = "swap" /\ cli'[c].pc = "idle") =>
                     /\ MtSize(active_memtable_[1]) < memtable_max_size_entries_
                     /\ active_memtable_' = active_memtable_
                     /\ immutable_memtables_' = immutable_memtables_
               /\ (cli[c].pc = "push" /\ cli'[c].pc = "idle") =>
                     /\ immutable_memtables_' =
                            immutable_memtables_ \o cli[c].old_active_to_flush
                     /\ Len(cli[c].old_active_to_flush) = 1
                     /\ cli'[c].old_active_to_flush = <<>>
          /\ Len(immutable_memtables_') > Len(immutable_memtables_) =>
               \E c \in Clients : cli[c].pc = "push" /\ cli'[c].pc = "idle"]_vars

\* two writers have seen the threshold met: one has swapped out a
\* memtable that holds an entry more than the threshold, the other has
\* still to look at the new active memtable
C28_Witness ==
    \E c, d \in Clients :
        /\ cli[c].pc = "push"
        /\ MtSize(cli[c].old_active_to_flush[1]) = memtable_max_size_entries_ + 1
        /\ cli[d].pc = "swap"
        /\ MtSize(active_memtable_[1]) < memtable_max_size_entries_
(***************************************************************************)
(* C29  LSM compaction trigger: the compaction worker starts a compaction  *)
(* from level i to i + 1 only when level 0 holds more than                 *)
(* max_level0_sstables_ SSTables (i = 0) or the entries of level i, i in   *)
(* 0 .. max_levels_ - 2, exceed cap(i), with cap(0) = max_level0_sstables_ *)
(* * sstable_target_entry_count_ and cap(i + 1) = level_entry_multiplier_  *)
(* * cap(i); it compacts the lowest such level, all of it; when no         *)
(* condition holds the worker leaves its loop position at the wait and     *)
(* the levels as they are.                                                 *)
(***************************************************************************)
RECURSIVE Cap(_)
Cap(i) == IF i = 0 THEN max_level0_sstables_ * sstable_target_entry_count_
          ELSE level_entry_multiplier_ * Cap(i - 1)

Entries(level) == SumEntries(level, 1)

Over(i) == Entries(levels_[i + 1]) > Cap(i)

Triggered(i) == (i = 0 /\ Len(levels_[1]) > max_level0_sstables_) \/ Over(i)

C30_ShutdownTerminates ==
    shutdown_requested_ ~> (flusher.pc = "exited" /\ compactor.pc = "exited")
(***************************************************************************)
(* Claims: SSTable lookup                                                  *)
(***************************************************************************)
\* C31: find_key has no false negatives.  For an SSTable built by
\* create_from_memtable, under any hash function, find_key(k) is found with
\* value v exactly when data maps k to a non-tombstone v: the range check
\* and the Bloom filter pass every stored key, a stored tombstone and an
\* absent key give not-found, and the answer is the one of find_key with
\* the filter taken as exact.
C31_FindKeyExact ==
    sst_ptr # <<>> =>
       LET sst == sst_ptr[1] IN
       /\ \A k \in MtKeys(sst.data) :
             /\ sst.min_key <= k /\ k <= sst.max_key
             /\ Query(sst.bloom, k)
       /\ \A k \in Words :
             LET stored == k \in LKeys /\ sst.data[k] \notin {NoEntry, TOMBSTONE_VALUE}
                 res == SSTable_find_key(sst, k)
             IN /\ res.found <=> stored
                /\ res.found => res.value = sst.data[k]
                /\ k \in LKeys => res = find_key(sst, k)
       /\ sstOut # NoFind => sstOut.res = SSTable_find_key(sst, sstOut.key)

\* find_key found a value in an SSTable that also holds a tombstone, and
\* the filter of that SSTable rejects some key inside its range
C31_Witness ==
    /\ sst_ptr # <<>>
    /\ sstOut.res.found
    /\ \E k \in LKeys : sst_ptr[1].data[k] = TOMBSTONE_VALUE
    /\ \E k \in LKeys : /\ sst_ptr[1].min_key < k /\ k < sst_ptr[1].max_key
                         /\ sst_ptr[1].data[k] = NoEntry
                         /\ ~Query(sst_ptr[1].bloom, k)

(***************************************************************************)
(* Claims: B+ tree splits and shape                                        *)
(***************************************************************************)
\* the records of a leaf, and the n records of S with the lowest keys
PairsOf(node) == {<<node.keys[i], node.values[i]>> : i \in 0..(node.numKeys - 1)}

Lowest(S, n) == {p \in S : Cardinality({q \in S : q[1] < p[1]}) < n}

Ascending(node) ==
    \A i \in 0..(node.numKeys - 1), j \in 0..(node.numKeys - 1) :
        i < j => node.keys[i] < node.keys[j]

\* the keys held by the internal nodes
InternalKeys(ns) ==
    UNION {{ns[n].keys[i] : i \in 0..(ns[n].numKeys - 1)} :
              n \in {m \in 1..Len(ns) : ns[m].type = "Internal"}}

\* C32: leaf split.  When a put of a new key reaches a leaf that holds
\* K = MAX_KEYS_LEAF keys, the K+1 records in key order are divided: the
\* lowest floor((K+1)/2) stay in the leaf and the rest move to a newly
\* allocated leaf; the new leaf's next is the leaf's previous next, the
\* leaf's next is the new leaf, and the key promoted to the parent is the
\* smallest key of the new leaf (the one key the internal nodes gain).
C32_LeafSplit ==
    [][\A k \in Keys :
         LET L == findLeafForKey(nodes_, rootIndex_, k)
             leaf == NodeAt(nodes_, L)
             N == Len(nodes_)
         IN (lastPut[k] = 0 /\ lastPut'[k] # 0 /\ leaf.numKeys = MAX_KEYS_LEAF)
            => LET all == PairsOf(leaf) \cup {<<k, lastPut'[k]>>}
                   half == (MAX_KEYS_LEAF + 1) \div 2
                   stay == Lowest(all, half)
                   leaf2 == NodeAt(nodes_', L)
                   newLeaf == NodeAt(nodes_', N)
                   res == splitLeaf([nodes |-> nodes_, root |-> rootIndex_], L, k,
                                    lastPut'[k]).res
               IN /\ Len(nodes_') > N
                  /\ leaf2.type = "Leaf" /\ newLeaf.type = "Leaf"
                  /\ leaf2.numKeys = half /\ PairsOf(leaf2) = stay /\ Ascending(leaf2)
                  /\ newLeaf.numKeys = MAX_KEYS_LEAF + 1 - half
                  /\ PairsOf(newLeaf) = all \ stay /\ Ascending(newLeaf)
                  /\ newLeaf.nextLeaf = leaf.nextLeaf
                  /\ leaf2.nextLeaf = N
                  /\ res = [splitted |-> TRUE, newChildOffset |-> N,
                            promotedKey |-> newLeaf.keys[0]]
                  /\ \A i \in 0..(newLeaf.numKeys - 1) : newLeaf.keys[0] <= newLeaf.keys[i]
                  /\ newLeaf.keys[0] \notin InternalKeys(nodes_)
                  /\ InternalKeys(nodes_') = InternalKeys(nodes_) \cup {newLeaf.keys[0]}
      ]_vars

\* a leaf that is not the last of the chain was split: its new sibling,
\* allocated later, points to a leaf that is older than itself
C32_Witness ==
    \E n \in NodeOffsets :
        /\ NodeAt(nodes_, n).type = "Leaf"
        /\ NodeAt(nodes_, n).nextLeaf # SIZE_MAX
        /\ NodeAt(nodes_, n).nextLeaf < n

\* the nodes insertInternal(nodeOffset, key) visits
RECURSIVE Path(_, _, _)
Path(ns, nodeOffset, key) ==
    LET node == NodeAt(ns, nodeOffset) IN
    IF node.type = "Leaf" THEN {nodeOffset}
    ELSE {nodeOffset} \cup Path(ns, node.childIndices[ChildPos(node, key)], key)

\* the insert of a new key below nodeOffset comes back with a split: the
\* leaf it reaches is full, and so is every node from there up to nodeOffset
RECURSIVE WillSplit(_, _, _)
WillSplit(ns, nodeOffset, key) ==
    LET node == NodeAt(ns, nodeOffset) IN
    IF node.type = "Leaf"
    THEN /\ node.numKeys = MAX_KEYS_LEAF
         /\ \A i \in 0..(node.numKeys - 1) : node.keys[i] # key
    ELSE /\ node.numKeys = MAX_KEYS_INTERNAL
         /\ WillSplit(ns, node.childIndices[ChildPos(node, key)], key)

KeysOf(node) == {node.keys[i] : i \in 0..(node.numKeys - 1)}

ChildrenOf(node) == {node.childIndices[i] : i \in 0..node.numKeys}

\* C33: internal split.  When a child split reaches an internal node that
\* holds K = MAX_KEYS_INTERNAL keys, the K+1 keys and K+2 children (the
\* promoted key c at the child's position i, the new sibling s at i+1) are
\* divided around the middle key m at index floor((K+1)/2): the keys
\* before m with their children stay, the keys after m with the remaining
\* children move to a new node, m goes upward and is in neither node, and
\* each of the two nodes has exactly numKeys+1 children.
C33_InternalSplit ==
    [][\A k \in LoadKeys :
         (lastPut[k] = 0 /\ lastPut'[k] # 0) =>
         \A p \in Path(nodes_, rootIndex_, k) :
            LET node == NodeAt(nodes_, p)
                K == MAX_KEYS_INTERNAL
                i == ChildPos(node, k)
                mid == (K + 1) \div 2
                fresh == Len(nodes_)..(Len(nodes_') - 1)
            IN (node.type = "Internal" /\ WillSplit(nodes_, p, k)) =>
               \E c \in LoadKeys, sib \in fresh, q \in fresh :
                  LET tmpKeys == InsertAt(node.keys, K, i, c)
                      tmpChildIndices == InsertAt(node.childIndices, K + 1, i + 1, sib)
                      m == tmpKeys[mid]
                      node2 == NodeAt(nodes_', p)
                      newNode == NodeAt(nodes_', q)
                  IN /\ q = sib + 1
                     /\ node2.type = "Internal" /\ newNode.type = "Internal"
                     /\ node2.numKeys = mid
                     /\ \A j \in 0..(mid - 1) : node2.keys[j] = tmpKeys[j]
                     /\ \A j \in 0..mid : node2.childIndices[j] = tmpChildIndices[j]
                     /\ newNode.numKeys = K - mid
                     /\ \A j \in 0..(K - mid - 1) : newNode.keys[j] = tmpKeys[mid + 1 + j]
                     /\ \A j \in 0..(K - mid) :
                           newNode.childIndices[j] = tmpChildIndices[mid + 1 + j]
                     /\ DOMAIN node2.childIndices = 0..node2.numKeys
                     /\ DOMAIN newNode.childIndices = 0..newNode.numKeys
                     /\ Cardinality(ChildrenOf(node2)) = node2.numKeys + 1
                     /\ Cardinality(ChildrenOf(newNode)) = newNode.numKeys + 1
                     /\ m \notin KeysOf(node2) \cup KeysOf(newNode)
                     /\ \E r \in 1..Len(nodes_') :
                           /\ r # p + 1 /\ r # q + 1
                           /\ nodes_'[r].type = "Internal"
                           /\ m \in KeysOf(nodes_'[r])
      ]_vars

\* an internal node p was split into p and q below a common parent, the
\* child split that caused it was at a position left of the middle (the
\* child's new sibling, allocated just before q, stayed in p), and in
\* another place a split left the new sibling in the new node
C33_Witness ==
    \E r \in NodeOffsets, p \in NodeOffsets, q \in NodeOffsets :
        LET parent == NodeAt(nodes_, r) IN
        /\ parent.type = "Internal"
        /\ NodeAt(nodes_, p).type = "Internal" /\ NodeAt(nodes_, q).type = "Internal"
        /\ p < q
        /\ \E j \in 0..(parent.numKeys - 1) :
              parent.childIndices[j] = p /\ parent.childIndices[j + 1] = q
        /\ q - 1 \in ChildrenOf(NodeAt(nodes_, p))
        /\ \E q2 \in NodeOffsets :
              /\ NodeAt(nodes_, q2).type = "Internal"
              /\ q2 # rootIndex_
              /\ q2 - 1 \in ChildrenOf(NodeAt(nodes_, q2))

\* ceil(K / 2)
HalfUp(K) == (K + 1) \div 2

\* the sizes of the two halves splitLeaf and splitInternal make of a full
\* node of capacity K
LeafHalves(K) == <<(K + 1) \div 2, (K + 1) - (K + 1) \div 2>>

InternalHalves(K) == <<(K + 1) \div 2, (K + 1) - ((K + 1) \div 2 + 1)>>

\* C34: minimum occupancy.  In every state reached by single-threaded puts
\* every non-root leaf holds at least ceil(K_leaf / 2) keys and every
\* non-root internal node at least ceil(K_internal / 2) keys, for the even
\* capacities of the code (15 of 30 and 60 of 120): both halves of a split
\* are at or above the minimum and nothing is removed.
C34_MinOccupancy ==
    /\ \A n \in NodeOffsets \ {rootIndex_} :
          LET node == NodeAt(nodes_, n) IN
          /\ node.type = "Leaf" => node.numKeys >= HalfUp(MAX_KEYS_LEAF)
          /\ (node.type = "Internal" /\ MAX_KEYS_INTERNAL % 2 = 0)
             => node.numKeys >= HalfUp(MAX_KEYS_INTERNAL)
          /\ node.type = "Internal" => node.numKeys >= MAX_KEYS_INTERNAL \div 2
    /\ \A i \in 1..2 :
          /\ LeafHalves(MAX_KEYS_LEAF_code)[i] >= 15
          /\ InternalHalves(MAX_KEYS_INTERNAL_code)[i] >= 60
    /\ HalfUp(MAX_KEYS_LEAF_code) = 15 /\ HalfUp(MAX_KEYS_INTERNAL_code) = 60

\* a tree of depth 3 or more in which a non-root internal node and a
\* non-root leaf sit exactly at the minimum and another leaf is full
C34_Witness ==
    /\ get_tree_depth(nodes_, rootIndex_) >= 3
    /\ \E n \in NodeOffsets \ {rootIndex_} :
          /\ NodeAt(nodes_, n).type = "Internal"
          /\ NodeAt(nodes_, n).numKeys = HalfUp(MAX_KEYS_INTERNAL)
    /\ \E n \in NodeOffsets \ {rootIndex_} :
          /\ NodeAt(nodes_, n).type = "Leaf"
          /\ NodeAt(nodes_, n).numKeys = HalfUp(MAX_KEYS_LEAF)
    /\ \E n \in NodeOffsets \ {rootIndex_} :
          /\ NodeAt(nodes_, n).type = "Leaf"
          /\ NodeAt(nodes_, n).numKeys = MAX_KEYS_LEAF

\* the depths at which the leaves below nodeOffset sit, nodeOffset being
\* at depth d
RECURSIVE LeafDepths(_, _, _)
LeafDepths(ns, nodeOffset, d) ==
    LET node == NodeAt(ns, nodeOffset) IN
    IF node.type = "Leaf" THEN {d}
    ELSE UNION {LeafDepths(ns, node.childIndices[i], d + 1) : i \in 0..node.numKeys}

\* the nodes of the subtree of nodeOffset
RECURSIVE Subtree(_, _)
Subtree(ns, nodeOffset) ==
    LET node == NodeAt(ns, nodeOffset) IN
    IF node.type = "Leaf" THEN {nodeOffset}
    ELSE {nodeOffset} \cup
         UNION {Subtree(ns, node.childIndices[i]) : i \in 0..node.numKeys}

\* C35: the tree stays balanced.  In every state reached by single-threaded
\* puts all leaves are at the same depth; the root index changes exactly
\* when the current root splits, and each root split raises the height by
\* exactly one (a single-leaf tree gets depth 2) while a put without a root
\* split keeps the height; every node that exists stays allocated, keeps
\* its kind and belongs to the tree of the new root.
C35_Balanced ==
    /\ [](/\ Cardinality(LeafDepths(nodes_, rootIndex_, 1)) = 1
          /\ LeafDepths(nodes_, rootIndex_, 1) = {get_tree_depth(nodes_, rootIndex_)}
          /\ Subtree(nodes_, rootIndex_) = NodeOffsets)
    /\ [][\A k \in LoadKeys :
            (lastPut[k] = 0 /\ lastPut'[k] # 0) =>
            LET depth == get_tree_depth(nodes_, rootIndex_)
                depth2 == get_tree_depth(nodes_', rootIndex_')
                rootSplits == WillSplit(nodes_, rootIndex_, k)
            IN /\ (rootIndex_' # rootIndex_) <=> rootSplits
               /\ rootSplits => /\ depth2 = depth + 1
                                /\ rootIndex_' = Len(nodes_') - 1
                                /\ NodeAt(nodes_', rootIndex_').childIndices[0] = rootIndex_
               /\ ~rootSplits => depth2 = depth
               /\ Len(nodes_') >= Len(nodes_)
               /\ \A n \in NodeOffsets : NodeAt(nodes_', n).type = NodeAt(nodes_, n).type
         ]_vars

\* the root has just been split for the third time: depth 4, the root is
\* the node allocated last and the first root, a leaf, is still node 0
C35_Witness ==
    /\ get_tree_depth(nodes_, rootIndex_) = 4
    /\ rootIndex_ = Len(nodes_) - 1
    /\ NodeAt(nodes_, 0).type = "Leaf"

(***************************************************************************)
(* Claims: LSM tree, order of the queue and shape of the levels            *)
(***************************************************************************)
\* the write numbers of the values a memtable holds (a put writes the
\* number of the write as its value; a tombstone carries none)
Versions(m) == {m[k] : k \in {j \in LKeys : m[j] \notin {NoEntry, TOMBSTONE_VALUE}}}

\* C36: the immutable queue keeps the rotation order.  At every state a
\* memtable that left the active slot earlier sits before one that left it
\* later, also with two writers: every value of a memtable in the queue
\* was written before every value of a memtable behind it.
C36_QueueOrder ==
    \A i \in 1..Len(immutable_memtables_), j \in 1..Len(immutable_memtables_) :
        i < j => \A v \in Versions(immutable_memtables_[i]),
                    w \in Versions(immutable_memtables_[j]) : v < w

\* what the SSTables of a level answer for key, each asked on its own
Hits(level, key) ==
    {find_key(level[j], key) : j \in {n \in 1..Len(level) : find_key(level[n], key).found}}

\* C37: the levels hold each key once.  In every reachable state no key is
\* stored in two different SSTables of the same level i >= 1, so whatever
\* the order in which get visits the SSTables of such a level, the first
\* one that finds the key is the only one that holds it; the scan of the
\* code returns its answer.
C37_LevelsHoldKeysOnce ==
    \A i \in 1..(max_levels_ - 1) :
       LET level == levels_[i + 1] IN
       /\ \A a \in 1..Len(level), b \in 1..Len(level) :
             a # b => MtKeys(level[a].data) \cap MtKeys(level[b].data) = {}
       /\ \A k \in LKeys :
             /\ Cardinality(Hits(level, k)) <= 1
             /\ \A h \in Hits(level, k) :
                   scanLevel(level, 1, k) = [ret |-> TRUE, found |-> TRUE, value |-> h.value]
             /\ Hits(level, k) = {} => scanLevel(level, 1, k) = Pass

\* a level i >= 1 holds two SSTables whose key ranges overlap (the merged
\* map was cut in the order of its iterator) and holds every key
C37_Witness ==
    \E i \in 1..(max_levels_ - 1) :
       LET level == levels_[i + 1] IN
       /\ \E a \in 1..Len(level), b \in 1..Len(level) :
             level[a].min_key < level[b].min_key /\ level[b].min_key < level[a].max_key
       /\ \A k \in LKeys : Hits(level, k) # {}

HasTombstone(m) == \E k \in LKeys : m[k] = TOMBSTONE_VALUE

\* C38: tombstones never reach level 1.  In every reachable state no
\* SSTable of a level i >= 1, and none that a compaction has built for
\* such a level, contains a tombstone, and no SSTable of any level is empty
\* (entry_count is the number of its entries and is at least 1).
C38_NoTombstoneBelowL0 ==
    /\ \A i \in 1..(max_levels_ - 1) : \A j \in 1..Len(levels_[i + 1]) :
          ~HasTombstone(levels_[i + 1][j].data)
    /\ \A j \in 1..Len(compactor.new_ssts_for_target) :
          /\ ~HasTombstone(compactor.new_ssts_for_target[j].data)
          /\ ~MtEmpty(compactor.new_ssts_for_target[j].data)
    /\ \A i \in 0..(max_levels_ - 1) : \A j \in 1..Len(levels_[i + 1]) :
          /\ ~MtEmpty(levels_[i + 1][j].data)
          /\ levels_[i + 1][j].entry_count = MtSize(levels_[i + 1][j].data)
          /\ levels_[i + 1][j].entry_count >= 1

\* L0 holds an SSTable with a tombstone while level 1 holds SSTables, and
\* the tombstone of another key, which was the last write of that key, has
\* been dropped by a compaction: the key is in no memtable and no level
C38_Witness ==
    /\ \E j \in 1..Len(levels_[1]) : HasTombstone(levels_[1][j].data)
    /\ Len(levels_[2]) > 0
    /\ \E k \in LKeys :
          /\ hist[k].val = TOMBSTONE_VALUE
          /\ \A m \in Rotated : m[k] = NoEntry
          /\ active_memtable_ # <<>> => active_memtable_[1][k] = NoEntry
          /\ \A i \in 0..(max_levels_ - 1) : \A j \in 1..Len(levels_[i + 1]) :
                levels_[i + 1][j].data[k] = NoEntry
          /\ compactor.pc \notin {"compact", "install"}

(***************************************************************************)
(* Claims: B+ tree, deadlock freedom                                       *)
(***************************************************************************)
\* the threads that hold the lock thread t is about to take (t itself
\* included: a std::shared_mutex is not recursive)
WaitsFor(t) ==
    IF thr[t].pc = "insertInternal"
    THEN Holders(thr[t].nodeOffset, {"shared", "unique"})
    ELSE IF thr[t].pc \in {"searchKey", "findLeafForKey"}
    THEN Holders(thr[t].nodeOffset, {"unique"})
    ELSE IF /\ thr[t].pc = "while"
            /\ thr[t].nodeOffset # SIZE_MAX
            /\ Len(thr[t].out) < thr[t].max_results
    THEN Holders(thr[t].nodeOffset, {"unique"})
    ELSE IF thr[t].pc = "treeLock"
    THEN {u \in Threads : tree_mutex = u}
    ELSE {}

\* every thread of S waits for a lock that a thread of S holds
Knot(S) == S # {} /\ \A t \in S : WaitsFor(t) \cap S # {}

\* the next step of thread t inside a call
StepOf(t) ==
    \/ InsertLock(t) \/ InsertLeaf(t) \/ InsertReturn(t) \/ TreeLock(t) \/ NewRoot(t)
    \/ SearchLock(t) \/ SearchReturn(t)
    \/ FindLeafLock(t) \/ FindLeafReturn(t) \/ RangeLock(t) \/ RangeScan(t)

\* the locks thread t gets in a step
NewLocks(t) ==
    {j \in 1..Len(locked'[t]) :
        \A h \in 1..Len(locked[t]) : locked[t][h].node # locked'[t][j].node}

\* C39: deadlock freedom.  No interleaving of concurrent get, put and
\* rangeQuery calls reaches a state in which threads wait for locks that
\* only threads of the same set can release, and a thread inside a call
\* that does not wait for a held lock can take its next step.  Node locks
\* are taken top-down: a thread that holds locks takes next the lock of a
\* child of the node it locked last, or of a node allocated in the same
\* step by the split of the node it locked last; rangeQuery holds no lock
\* between two leaves and one leaf lock while it scans; the tree lock is
\* taken only by a thread that holds no node lock.
C39_DeadlockFreedom ==
    /\ [](/\ \A S \in SUBSET Threads : ~Knot(S)
          /\ \A t \in Threads :
                /\ (thr[t].pc # "idle" /\ WaitsFor(t) = {}) => ENABLED StepOf(t)
                /\ thr[t].pc = "while" => locked[t] = <<>>
                /\ thr[t].pc = "leaf" =>
                      /\ Len(locked[t]) = 1
                      /\ NodeAt(nodes_, locked[t][1].node).type = "Leaf"
                /\ thr[t].pc \in {"treeLock", "newRoot"} => locked[t] = <<>>
                /\ tree_mutex = t => thr[t].pc = "newRoot")
    /\ [][\A t \in Threads :
            /\ \A j \in NewLocks(t) :
                  LET n == locked'[t][j].node IN
                  \/ locked[t] = <<>> /\ j = 1 /\ n < Len(nodes_)
                  \/ /\ locked[t] # <<>>
                     /\ n < Len(nodes_)
                     /\ j = Len(locked[t]) + 1
                     /\ n \in ChildrenOf(NodeAt(nodes_, locked[t][Len(locked[t])].node))
                  \/ /\ n >= Len(nodes_)
                     /\ j > 1
                     /\ \E h \in 1..Len(locked[t]) :
                           /\ locked[t][h].node = locked'[t][j - 1].node
                           /\ locked[t][h].mode = "unique"
                     /\ NodeAt(nodes_', n).type =
                           NodeAt(nodes_, locked'[t][j - 1].node).type
            /\ (tree_mutex' = t /\ tree_mutex # t) => locked[t] = <<>> /\ locked'[t] = <<>>
         ]_vars

\* a rangeQuery waits for the lock of a leaf while a put that has split
\* this leaf holds it together with the lock of the new sibling, in a tree
\* with internal nodes; the put can take its next step
C39_Witness ==
    \E t \in Threads, u \in Threads :
        /\ thr[t].pc = "while"
        /\ WaitsFor(t) = {u}
        /\ thr[u].pc = "return" /\ thr[u].res.splitted
        /\ Len(locked[u]) >= 3
        /\ locked[u][Len(locked[u])].node = thr[u].res.newChildOffset
        /\ locked[u][Len(locked[u]) - 1].node = thr[t].nodeOffset

(***************************************************************************)
(* Claims: CustomSkipListMemtable, calls return                            *)
(***************************************************************************)
\* C40: every call of put, update and putBatch on a CustomSkipListMemtable
\* completes with true or false: no thread is blocked on rw_mutex_ that it
\* holds itself, and the last put, update or putBatch of every thread that
\* is in no call returned.
C40_CallsReturn ==
    \A t \in Threads :
        /\ cmThr[t].pc # "blocked"
        /\ cmThr[t].pc = "idle" /\ cmThr[t].op \in {"put", "update", "putBatch"} =>
              /\ cmThr[t].how = "returned"
              /\ cmThr[t].ret \in BOOLEAN

====
